---- MODULE Spec2Model ----
(***************************************************************************)
(* CerisoNet back end: the socket interaction handlers (like-post,         *)
(* share-post) over the MongoDB collection CERISoNet, and the HTTP         *)
(* session routes (POST /login, POST /logout, GET /user,                   *)
(* GET /users/connected, GET /posts) over the PostgreSQL table             *)
(* fredouil.compte and the express-session store; the socket presence      *)
(* handlers (authenticate, get-connected-users, disconnect) and the        *)
(* add-comment handler.                                                    *)
(*                                                                         *)
(* Node runs one handler at a time and switches handlers only at an        *)
(* `await`.  An action below is the code of one handler from the return of *)
(* one awaited storage call up to the next `await`; the awaited call takes *)
(* effect atomically at the start of the action, and either returns or     *)
(* throws.                                                                 *)
(***************************************************************************)
EXTENDS Integers, Sequences, FiniteSets, TLC

VARIABLES
  posts,        \* the collection CERISoNet: ObjectId -> document
  dbConnected,  \* services/mongo.js: dbConnected (and cerisonetCollection set)
  events,       \* socket events received so far, in order of arrival
  statut,       \* fredouil.compte.statut_connexion, by account id
  session,      \* the session store: cookie -> session.user (optional)
  reqs,         \* HTTP requests received so far, in order of arrival
  connectedUsers  \* the Map connectedUsers, in insertion order

vars == <<posts, dbConnected, events, statut, session, reqs, connectedUsers>>

(***************************************************************************)
(* Bounds of the model.                                                    *)
(***************************************************************************)
MaxLikeEvents == 2
MaxShareEvents == 2
MaxReqs == 3

(***************************************************************************)
(* Optional values: a field or variable that may be undefined.             *)
(***************************************************************************)
None == <<>>
Some(x) == <<x>>
IsSome(o) == o /= <<>>
Val(o) == o[1]


(***************************************************************************)
(* Post identifiers.  A payload carries the post id as a string; the       *)
(* driver's ObjectId constructor parses it and throws on a string that is  *)
(* not a 24-digit hexadecimal id.  Documents are keyed by the parsed id.   *)
(***************************************************************************)
ObjectIdOf(s) ==
  CASE s = "64a000000000000000000001" -> Some(1)
    [] s = "64a000000000000000000002" -> Some(2)
    [] s = "64a000000000000000000003" -> Some(3)
    [] s = "64a000000000000000000004" -> Some(4)
    [] s = "64a0000000000000000000ff" -> Some(255)
    [] OTHER -> None

IdP1 == "64a000000000000000000001"
IdGone == "64a0000000000000000000ff"
IdBad == "not-an-object-id"
IdAbsent == ""

Range(q) == {q[k] : k \in 1..Len(q)}

(***************************************************************************)
(* Messages the server emits.  socket.emit reaches the initiating          *)
(* connection only, io.emit every connection.                              *)
(***************************************************************************)
SocketEmit(sock, name, payload) ==
  [to |-> "socket", sock |-> sock, name |-> name, payload |-> payload]
IoEmit(name, payload) ==
  [to |-> "all", sock |-> "*", name |-> name, payload |-> payload]
ErrorMsg(text) == [message |-> text]

(***************************************************************************)
(* The collection operations the handlers use, as MongoDB evaluates them.  *)
(***************************************************************************)
\* (mutant) the likedBy condition never matches
FindLiked_NoMatch(store, oid, userId) == None

\* findOne({_id: oid, likedBy: {$elemMatch: {$eq: userId}}})
FindLiked(store, oid, userId) ==
  IF oid \in DOMAIN store /\ userId \in Range(store[oid].likedBy)
  THEN Some(store[oid]) ELSE None

\* findOne({_id: oid})
FindById(store, oid) ==
  IF oid \in DOMAIN store THEN Some(store[oid]) ELSE None

\* (mutant) the update increments the counter and forgets the $push
ApplyLike_IncOnly(doc, userId) == [doc EXCEPT !.likes = @ + 1]

\* (mutant) the update pushes the liker and forgets the $inc
ApplyLike_PushOnly(doc, userId) == [doc EXCEPT !.likedBy = Append(@, userId)]

\* the update document {$inc: {likes: 1}, $push: {likedBy: userId}}
ApplyLike(doc, userId) ==
  [doc EXCEPT !.likes = @ + 1, !.likedBy = Append(@, userId)]

\* (mutant) the update is an upsert
UpdateOneLike_Upsert(store, oid, userId) ==
  IF oid \in DOMAIN store
  THEN [store EXCEPT ![oid] = ApplyLike(@, userId)]
  ELSE store @@ (oid :> [likes |-> 1, likedBy |-> <<userId>>])

\* updateOne({_id: oid}, {$inc: ..., $push: ...}): the collection afterwards
UpdateOneLike(store, oid, userId) ==
  IF oid \in DOMAIN store
  THEN [store EXCEPT ![oid] = ApplyLike(@, userId)]
  ELSE store

\* updateResult.matchedCount of an update filtered by {_id: oid}
MatchedCount(store, oid) == IF oid \in DOMAIN store THEN 1 ELSE 0

\* totalLikes = updatedPost.likes || 1
TotalLikes(updatedPost) ==
  IF updatedPost.likes /= 0 THEN updatedPost.likes ELSE 1

(***************************************************************************)
(* Socket events.  An event record holds the payload, the handler's        *)
(* position and locals, and what the handler emitted; `before`, `alone`,   *)
(* `pre`, `post`, `inc` and `threw` (the handler's catch ran) record the    *)
(* history the properties speak about.                                     *)
(***************************************************************************)
InFlight(e) == e.pc /= "done"

\* the document a payload's post id designates, if any
Target(postId) ==
  IF IsSome(ObjectIdOf(postId))
  THEN FindById(posts, Val(ObjectIdOf(postId))) ELSE None

DoneEvents == {k \in 1..Len(events) : events[k].pc = "done"}

\* a new event arrives: the events in flight are no longer alone
Arrive(e) ==
  events' = Append([k \in 1..Len(events) |->
                      IF InFlight(events[k])
                      THEN [events[k] EXCEPT !.alone = FALSE]
                      ELSE events[k]], e)

NewEvent(kind, sock, d) ==
  [kind |-> kind, socket |-> sock, hasData |-> d.hasData,
   postId |-> d.postId, userId |-> d.userId, userName |-> d.userName,
   pc |-> "start", oid |-> 0, read |-> None, out |-> <<>>, inc |-> 0,
   newId |-> None, threw |-> FALSE,
   before |-> DoneEvents,
   alone |-> \A k \in 1..Len(events) : ~InFlight(events[k]),
   pre |-> Target(d.postId), post |-> None]

\* the handler returns after a last emit; `post` is the target as it is then
Finish(e, msg) ==
  [e EXCEPT !.pc = "done", !.out = Append(@, msg), !.post = Target(e.postId)]

Payload(postId, userId) ==
  [hasData |-> TRUE, postId |-> postId, userId |-> userId,
   userName |-> IF userId = 1 THEN "Ana" ELSE "Bob"]
NoPayload ==
  [hasData |-> FALSE, postId |-> IdAbsent, userId |-> 0, userName |-> ""]

(***************************************************************************)
(* like-post (sockets/handlers/like.js)                                    *)
(***************************************************************************)
\* the like-post events the model receives: <<connection, payload>>
LikeInputs ==
  {<<"s1", Payload(IdP1, 1)>>, <<"s2", Payload(IdP1, 1)>>,
   <<"s2", Payload(IdP1, 2)>>, <<"s1", Payload(IdGone, 1)>>,
   <<"s2", Payload(IdBad, 1)>>, <<"s1", Payload(IdAbsent, 1)>>,
   <<"s2", Payload(IdP1, 0)>>, <<"s1", NoPayload>>}

\* (mutant) the catch tells every connection
LikeThrown_Broadcast(e) ==
  [Finish(e, IoEmit("error", ErrorMsg("Erreur lors du traitement du like")))
     EXCEPT !.threw = TRUE]

\* the catch of lines 90-93
LikeThrown(e) ==
  [Finish(e, SocketEmit(e.socket, "error",
                        ErrorMsg("Erreur lors du traitement du like")))
     EXCEPT !.threw = TRUE]

\* (mutant) the payload's fields are not checked
LikeValidate_NoCheck(e) ==
  IF ~e.hasData THEN LikeThrown(e) ELSE [e EXCEPT !.pc = "getColl"]

\* lines 23-30 (and the catch of lines 90-93 for an absent payload)
LikeValidate(e) ==
  IF ~e.hasData THEN LikeThrown(e)
  ELSE IF e.postId = IdAbsent \/ e.userId = 0
  THEN Finish(e, SocketEmit(e.socket, "error",
                            ErrorMsg("Données de like incomplètes")))
  ELSE [e EXCEPT !.pc = "getColl"]

LikeStart(sock, d) ==
  /\ Len(events) < MaxLikeEvents
  /\ Arrive(LikeValidate(NewEvent("like", sock, d)))
  /\ UNCHANGED <<connectedUsers, posts, dbConnected, statut, session, reqs>>

\* getCerisonetCollection returns (mongo.js lines 45-55), then lines 36-49
LikeGetColl(i) ==
  /\ events[i].kind = "like" /\ events[i].pc = "getColl"
  /\ \E up \in BOOLEAN :
       LET e == events[i] IN
       /\ dbConnected' = (dbConnected \/ up)
       /\ events' = [events EXCEPT ![i] =
            IF ~dbConnected'
            THEN Finish(e, SocketEmit(e.socket, "error",
                   ErrorMsg("Erreur de connexion à la base de données MongoDB")))
            ELSE IF ~IsSome(ObjectIdOf(e.postId))
            THEN Finish(e, SocketEmit(e.socket, "error",
                   ErrorMsg("Format d'ID de post invalide")))
            ELSE [e EXCEPT !.pc = "findLiked", !.oid = Val(ObjectIdOf(e.postId))]]
  /\ UNCHANGED <<connectedUsers, posts, statut, session, reqs>>

\* the findOne of lines 52-55 returns or throws, then lines 57-62
LikeFindLiked(i) ==
  /\ events[i].kind = "like" /\ events[i].pc = "findLiked"
  /\ \E ok \in BOOLEAN :
       LET e == events[i] IN
       events' = [events EXCEPT ![i] =
         IF ~ok THEN LikeThrown(e)
         ELSE IF IsSome(FindLiked(posts, e.oid, e.userId))
         THEN Finish(e, SocketEmit(e.socket, "error",
                                   ErrorMsg("Vous avez déjà liké ce post")))
         ELSE [e EXCEPT !.pc = "update"]]
  /\ UNCHANGED <<connectedUsers, posts, dbConnected, statut, session, reqs>>

\* the updateOne of lines 65-71 returns or throws, then lines 73-76
LikeUpdate(i) ==
  /\ events[i].kind = "like" /\ events[i].pc = "update"
  /\ \E ok \in BOOLEAN :
       LET e == events[i] IN
       IF ~ok
       THEN /\ events' = [events EXCEPT ![i] = LikeThrown(e)]
            /\ posts' = posts
       ELSE /\ posts' = UpdateOneLike(posts, e.oid, e.userId)
            /\ events' = [events EXCEPT ![i] =
                 IF MatchedCount(posts, e.oid) = 0
                 THEN Finish(e, SocketEmit(e.socket, "error",
                                           ErrorMsg("Post non trouvé")))
                 ELSE [e EXCEPT !.pc = "reread", !.inc = 1]]
  /\ UNCHANGED <<connectedUsers, dbConnected, statut, session, reqs>>

\* what io.emit('post-liked', ...) of lines 84-88 carries
PostLiked(e, totalLikes) ==
  IoEmit("post-liked",
         [postId |-> e.postId, userId |-> e.userId, totalLikes |-> totalLikes])

\* the findOne of line 79 returns or throws, then lines 80-88
LikeReread(i) ==
  /\ events[i].kind = "like" /\ events[i].pc = "reread"
  /\ \E ok \in BOOLEAN :
       LET e == events[i] IN
       events' = [events EXCEPT ![i] =
         IF ~ok \/ ~IsSome(FindById(posts, e.oid)) THEN LikeThrown(e)
         ELSE Finish(e, PostLiked(e, TotalLikes(Val(FindById(posts, e.oid)))))]
  /\ UNCHANGED <<connectedUsers, posts, dbConnected, statut, session, reqs>>

(***************************************************************************)
(* Initial state: the documents created out of band, nobody connected.     *)
(***************************************************************************)
Comment1 ==
  [id |-> "c1", commentedBy |-> 1, text |-> "bravo",
   date |-> "2025-03-11", hour |-> "14:30:00"]

PlainPost ==
  [body |-> "bonjour", createdBy |-> 2, date |-> "2025-03-10",
   hour |-> "08:00:00", likes |-> 0, likedBy |-> <<>>,
   comments |-> <<>>, hashtags |-> Some(<<"#ceri">>),
   images |-> Some(<<"a.png">>), isShared |-> None, originalPost |-> None,
   sharedFrom |-> None]

LikedPost ==
  [body |-> "salut", createdBy |-> 1, date |-> "2025-03-11",
   hour |-> "14:00:00", likes |-> 1, likedBy |-> <<2>>,
   comments |-> <<Comment1>>, hashtags |-> None, images |-> None,
   isShared |-> None, originalPost |-> None, sharedFrom |-> None]

InitStores == {(1 :> PlainPost), (1 :> LikedPost)}

Accounts == {1, 2}

Init ==
  /\ posts \in InitStores
  /\ dbConnected \in BOOLEAN
  /\ events = <<>>
  /\ statut = [a \in Accounts |-> 0]
  /\ session = [c \in {"k1", "k2"} |-> None]
  /\ reqs = <<>>
  /\ connectedUsers = <<>>

NextLike ==
  \/ \E in \in LikeInputs : LikeStart(in[1], in[2])
  \/ \E i \in 1..Len(events) : LikeGetColl(i)
  \/ \E i \in 1..Len(events) : LikeFindLiked(i)
  \/ \E i \in 1..Len(events) : LikeUpdate(i)
  \/ \E i \in 1..Len(events) : LikeReread(i)

SpecLike == Init /\ [][NextLike]_vars

(***************************************************************************)
(* share-post (sockets/handlers/share.js)                                  *)
(***************************************************************************)
IdP2 == "64a000000000000000000002"

\* the share-post events the model receives: <<connection, payload>>
ShareInputs ==
  {<<"s1", Payload(IdP1, 1)>>, <<"s2", Payload(IdP1, 2)>>,
   <<"s2", Payload(IdP2, 1)>>, <<"s1", Payload(IdGone, 1)>>,
   <<"s2", Payload(IdBad, 1)>>, <<"s1", Payload(IdAbsent, 1)>>,
   <<"s2", Payload(IdP1, 0)>>, <<"s1", NoPayload>>}

\* the catch of lines 110-113
ShareThrown(e) ==
  [Finish(e, SocketEmit(e.socket, "error",
                        ErrorMsg("Erreur lors du partage du post")))
     EXCEPT !.threw = TRUE]

\* lines 24-31 (and the catch of lines 110-113 for an absent payload)
ShareValidate(e) ==
  IF ~e.hasData THEN ShareThrown(e)
  ELSE IF e.postId = IdAbsent \/ e.userId = 0
  THEN Finish(e, SocketEmit(e.socket, "error",
                            ErrorMsg("Les données de partage sont incomplètes")))
  ELSE [e EXCEPT !.pc = "getColl"]

ShareStart(sock, d) ==
  /\ Len(events) < MaxShareEvents
  /\ Arrive(ShareValidate(NewEvent("share", sock, d)))
  /\ UNCHANGED <<connectedUsers, posts, dbConnected, statut, session, reqs>>

\* getCerisonetCollection returns (mongo.js lines 45-55), then lines 37-50
ShareGetColl(i) ==
  /\ events[i].kind = "share" /\ events[i].pc = "getColl"
  /\ \E up \in BOOLEAN :
       LET e == events[i] IN
       /\ dbConnected' = (dbConnected \/ up)
       /\ events' = [events EXCEPT ![i] =
            IF ~dbConnected'
            THEN Finish(e, SocketEmit(e.socket, "error",
                   ErrorMsg("Erreur de connexion à la base de données MongoDB")))
            ELSE IF ~IsSome(ObjectIdOf(e.postId))
            THEN Finish(e, SocketEmit(e.socket, "error",
                   ErrorMsg("Format d'ID de post invalide")))
            ELSE [e EXCEPT !.pc = "find", !.oid = Val(ObjectIdOf(e.postId))]]
  /\ UNCHANGED <<connectedUsers, posts, statut, session, reqs>>

\* the findOne of line 53 returns or throws, then lines 55-59
ShareFind(i) ==
  /\ events[i].kind = "share" /\ events[i].pc = "find"
  /\ \E ok \in BOOLEAN :
       LET e == events[i] IN
       events' = [events EXCEPT ![i] =
         IF ~ok THEN ShareThrown(e)
         ELSE IF ~IsSome(FindById(posts, e.oid))
         THEN Finish(e, SocketEmit(e.socket, "error", ErrorMsg("Post non trouvé")))
         ELSE [e EXCEPT !.pc = "insert", !.read = FindById(posts, e.oid)]]
  /\ UNCHANGED <<connectedUsers, posts, dbConnected, statut, session, reqs>>

\* new Date() of line 62, as the strings of lines 63-64 and 100
NowDate == "2025-03-12"
NowHour == "09:15:00"
NowIso == "2025-03-12T09:15:00.000Z"

\* post.hashtags || [], post.images || []
OrEmpty(o) == IF IsSome(o) THEN Val(o) ELSE <<>>

\* (mutant) the share keeps the like and comment state of the post it copies
SharedPost_KeepState(post, postId, userId) ==
  [post EXCEPT !.createdBy = userId, !.date = NowDate, !.hour = NowHour,
               !.originalPost = Some(postId),
               !.sharedFrom = Some(post.createdBy), !.isShared = Some(TRUE),
               !.hashtags = Some(OrEmpty(post.hashtags)),
               !.images = Some(OrEmpty(post.images))]

\* (mutant) the share copies the like counter of the post
SharedPost_KeepLikes(post, postId, userId) ==
  [body |-> post.body, createdBy |-> userId, date |-> NowDate,
   hour |-> NowHour, originalPost |-> Some(postId),
   sharedFrom |-> Some(post.createdBy), likes |-> post.likes,
   likedBy |-> <<>>,
   comments |-> <<>>, hashtags |-> Some(OrEmpty(post.hashtags)),
   images |-> Some(OrEmpty(post.images)), isShared |-> Some(TRUE)]

\* the object literal of lines 66-79
SharedPost(post, postId, userId) ==
  [body |-> post.body, createdBy |-> userId, date |-> NowDate,
   hour |-> NowHour, originalPost |-> Some(postId),
   sharedFrom |-> Some(post.createdBy), likes |-> 0, likedBy |-> <<>>,
   comments |-> <<>>, hashtags |-> Some(OrEmpty(post.hashtags)),
   images |-> Some(OrEmpty(post.images)), isShared |-> Some(TRUE)]

\* the _id the driver generates for an inserted document
FreshId(store) ==
  1 + CHOOSE m \in DOMAIN store : \A d \in DOMAIN store : d <= m

\* (mutant) the share is written over the document it was read from
ShareInsert_Overwrite(store, e) ==
  [store EXCEPT ![e.oid] = SharedPost(Val(e.read), e.postId, e.userId)]

\* the collection after the insertOne(sharedPost) of line 84
ShareInsert(store, e) ==
  store @@ (FreshId(store) :> SharedPost(Val(e.read), e.postId, e.userId))

\* what lines 95-101 broadcast and lines 104-108 answer
PostShared(e, newId) ==
  IoEmit("post-shared",
         [postId |-> e.postId, newPostId |-> newId, userId |-> e.userId,
          userName |-> e.userName, date |-> NowIso])
\* (mutant) the confirmation carries the id of the post that was shared
ShareSuccess_OriginalId(e, newId) ==
  SocketEmit(e.socket, "share-success",
             [success |-> TRUE, message |-> "Post partagé avec succès",
              newPostId |-> e.oid])

ShareSuccess(e, newId) ==
  SocketEmit(e.socket, "share-success",
             [success |-> TRUE, message |-> "Post partagé avec succès",
              newPostId |-> newId])

\* the insertOne of line 84 returns (acknowledged or not) or throws, then
\* lines 86-108; an insert sent without acknowledgement may still be stored
ShareInsertReturns(i) ==
  /\ events[i].kind = "share" /\ events[i].pc = "insert"
  /\ \E res \in {"acknowledged", "unacknowledged", "lost", "thrown"} :
       LET e == events[i] IN
       /\ posts' = IF res \in {"acknowledged", "unacknowledged"}
                   THEN ShareInsert(posts, e) ELSE posts
       /\ events' = [events EXCEPT ![i] =
            IF res = "thrown" THEN ShareThrown(e)
            ELSE IF res /= "acknowledged"
            THEN Finish(e, SocketEmit(e.socket, "error",
                   ErrorMsg("Erreur lors de la sauvegarde du partage")))
            ELSE [Finish([e EXCEPT !.out = Append(@, PostShared(e, FreshId(posts)))],
                         ShareSuccess(e, FreshId(posts)))
                    EXCEPT !.newId = Some(FreshId(posts))]]
  /\ UNCHANGED <<connectedUsers, dbConnected, statut, session, reqs>>

NextShare ==
  \/ \E in \in ShareInputs : ShareStart(in[1], in[2])
  \/ \E i \in 1..Len(events) : ShareGetColl(i)
  \/ \E i \in 1..Len(events) : ShareFind(i)
  \/ \E i \in 1..Len(events) : ShareInsertReturns(i)

SpecShare == Init /\ [][NextShare]_vars

(***************************************************************************)
(* The table fredouil.compte and the password digest.                      *)
(***************************************************************************)
\* crypto.createHash('sha1').update(password).digest('hex')
Sha1(password) ==
  CASE password = "pw-ana" -> "5f1c7e2a"
    [] password = "pw-bob" -> "c03b94d1"
    [] password = "5f1c7e2a" -> "9a4476e0"
    [] OTHER -> "da39a3ee"

Compte ==
  [a \in Accounts |->
     IF a = 1
     THEN [id |-> 1, mail |-> "ana@ceri.fr", motpasse |-> "5f1c7e2a",
           nom |-> "Martin", prenom |-> "Ana"]
     ELSE [id |-> a, mail |-> "bob@ceri.fr", motpasse |-> "c03b94d1",
           nom |-> "Durand", prenom |-> "Bob"]]

\* SELECT * FROM fredouil.compte WHERE mail = $1: result.rows[0]
SelectByMail(email) ==
  IF \E a \in Accounts : Compte[a].mail = email
  THEN Some(Compte[CHOOSE a \in Accounts : Compte[a].mail = email])
  ELSE None

\* (mutant) the query leaves out the WHERE clause
SelectConnected_All(flags) == Accounts

\* SELECT id, ... FROM fredouil.compte WHERE statut_connexion = 1
SelectConnected(flags) == {a \in Accounts : flags[a] = 1}

\* UPDATE fredouil.compte SET statut_connexion = $1 WHERE id = $2
UpdateStatut(flags, id, value) ==
  [a \in Accounts |-> IF a = id THEN value ELSE flags[a]]

(***************************************************************************)
(* HTTP requests.  A request record holds the cookie, the body, the        *)
(* session.user the session middleware loaded on arrival, the handler's    *)
(* position and locals, the storage calls it made and its response;        *)
(* `alone` records that no other request was pending while it ran.         *)
(***************************************************************************)
Pending(r) == r.pc /= "done"

Receive(r) ==
  reqs' = Append([k \in 1..Len(reqs) |->
                    IF Pending(reqs[k])
                    THEN [reqs[k] EXCEPT !.alone = FALSE]
                    ELSE reqs[k]], r)

NewReq(kind, cookie, email, password) ==
  [kind |-> kind, cookie |-> cookie, email |-> email, password |-> password,
   sess |-> session[cookie], pc |-> "start", row |-> None, calls |-> <<>>,
   status |-> 0, body |-> None, cleared |-> FALSE,
   alone |-> \A k \in 1..Len(reqs) : ~Pending(reqs[k])]

\* res.status(code).json(body)
Respond(r, code, body) ==
  [r EXCEPT !.pc = "done", !.status = code, !.body = Some(body)]

Call(r, op, id, value, ok) ==
  [r EXCEPT !.calls = Append(@, [op |-> op, id |-> id, value |-> value,
                                  ok |-> ok])]

Failure(message) == [success |-> FALSE, message |-> message]

\* (mutant) the middleware tests req.session alone, which is always set
AuthMiddleware_SessionOnly(sess) == TRUE

\* middlewares/auth.js: req.session && req.session.user
AuthMiddleware(sess) == IsSome(sess)

Unauthenticated(r) == Respond(r, 401, Failure("Non authentifié"))

(***************************************************************************)
(* POST /login (routes/auth.js lines 140-215)                              *)
(***************************************************************************)
\* lines 143-151
LoginValidate(r) ==
  IF r.email = "" \/ r.password = ""
  THEN Respond(r, 400, Failure("Email et mot de passe requis"))
  ELSE [r EXCEPT !.pc = "query"]

LoginStart(cookie, email, password) ==
  /\ Len(reqs) < MaxReqs
  /\ Receive(LoginValidate(NewReq("login", cookie, email, password)))
  /\ UNCHANGED <<connectedUsers, posts, dbConnected, events, statut, session>>

\* (mutant) the stored digest is compared with the password as typed
CredentialsOk_Plain(row, password) ==
  IsSome(row) /\ Val(row).motpasse = password

\* the negation of the test of line 168
CredentialsOk(row, password) ==
  IsSome(row) /\ Val(row).motpasse = Sha1(password)

\* the summary of lines 179-185 and 191-197 (lastLogin left out)
Summary(row) ==
  [id |-> row.id, mail |-> row.mail, nom |-> row.nom, prenom |-> row.prenom]

\* the query of lines 157-160 returns or throws, then lines 162-173 or the
\* catch of lines 199-214
LoginQuery(i) ==
  /\ reqs[i].kind = "login" /\ reqs[i].pc = "query"
  /\ \E res \in {"rows", "ECONNREFUSED", "thrown"} :
       LET ok == res = "rows"
           r == Call(reqs[i], "select", 0, 0, ok)
           row == SelectByMail(r.email)
       IN reqs' = [reqs EXCEPT ![i] =
            IF ~ok
            THEN Respond(r, 500, Failure(IF res = "ECONNREFUSED"
                   THEN "Erreur de connexion à la base de données"
                   ELSE "Erreur serveur lors de la connexion"))
            ELSE IF ~CredentialsOk(row, r.password)
            THEN Respond(r, 401, Failure(IF ~IsSome(row)
                                         THEN "Utilisateur non trouvé"
                                         ELSE "Mot de passe incorrect"))
            ELSE [r EXCEPT !.pc = "update", !.row = row]]
  /\ UNCHANGED <<connectedUsers, posts, dbConnected, events, statut, session>>

\* updateUserConnectionStatus(user.id, 1) returns (true, or false when its
\* query threw: services/postgres.js lines 98-111), then lines 178-198
LoginUpdate(i) ==
  /\ reqs[i].kind = "login" /\ reqs[i].pc = "update"
  /\ \E ok \in BOOLEAN :
       LET r == Call(reqs[i], "update", Val(reqs[i].row).id, 1, ok)
           user == Summary(Val(r.row))
       IN /\ statut' = IF ok THEN UpdateStatut(statut, user.id, 1) ELSE statut
          /\ session' = [session EXCEPT ![r.cookie] = Some(user)]
          /\ reqs' = [reqs EXCEPT ![i] =
               Respond(r, 200, [success |-> TRUE,
                                message |-> "Connexion réussie",
                                user |-> user])]
  /\ UNCHANGED <<connectedUsers, posts, dbConnected, events>>

(***************************************************************************)
(* POST /logout (routes/auth.js lines 254-287)                             *)
(***************************************************************************)
\* (mutant) the status write is issued whether or not the session has a user
LogoutUserId_Always(sess) == IF IsSome(sess) THEN Val(sess).id ELSE 1

\* line 257: req.session.user ? req.session.user.id : null (0 for null)
LogoutUserId(sess) == IF IsSome(sess) THEN Val(sess).id ELSE 0

\* lines 256-262
LogoutStart(cookie) ==
  /\ Len(reqs) < MaxReqs
  /\ LET r == NewReq("logout", cookie, "", "") IN
       Receive([r EXCEPT !.pc = IF LogoutUserId(r.sess) /= 0
                                 THEN "update" ELSE "destroy"])
  /\ UNCHANGED <<connectedUsers, posts, dbConnected, events, statut, session>>

\* updateUserConnectionStatus(userId, 0) returns, then line 265
LogoutUpdate(i) ==
  /\ reqs[i].kind = "logout" /\ reqs[i].pc = "update"
  /\ \E ok \in BOOLEAN :
       LET r == Call(reqs[i], "update", LogoutUserId(reqs[i].sess), 0, ok) IN
       /\ statut' = IF ok THEN UpdateStatut(statut, LogoutUserId(r.sess), 0)
                          ELSE statut
       /\ reqs' = [reqs EXCEPT ![i] = [r EXCEPT !.pc = "destroy"]]
  /\ UNCHANGED <<connectedUsers, posts, dbConnected, events, session>>

\* the callback of req.session.destroy runs (lines 265-279)
LogoutDestroy(i) ==
  /\ reqs[i].kind = "logout" /\ reqs[i].pc = "destroy"
  /\ \E err \in BOOLEAN :
       LET r == reqs[i] IN
       IF err
       THEN /\ reqs' = [reqs EXCEPT ![i] =
                 Respond(r, 500, Failure("Erreur lors de la déconnexion"))]
            /\ session' = session
       ELSE /\ reqs' = [reqs EXCEPT ![i] =
                 Respond([r EXCEPT !.cleared = TRUE], 200,
                         [success |-> TRUE, message |-> "Déconnexion réussie"])]
            /\ session' = [session EXCEPT ![r.cookie] = None]
  /\ UNCHANGED <<connectedUsers, posts, dbConnected, events, statut>>

(***************************************************************************)
(* GET /user and GET /users/connected (routes/users.js)                    *)
(***************************************************************************)
\* lines 16-21
GetUser(cookie) ==
  /\ Len(reqs) < MaxReqs
  /\ LET r == NewReq("user", cookie, "", "") IN
       Receive(IF AuthMiddleware(r.sess)
               THEN Respond(r, 200, [success |-> TRUE, user |-> r.sess])
               ELSE Unauthenticated(r))
  /\ UNCHANGED <<connectedUsers, posts, dbConnected, events, statut, session>>

\* lines 27-30
ConnectedStart(cookie) ==
  /\ Len(reqs) < MaxReqs
  /\ LET r == NewReq("connected", cookie, "", "") IN
       Receive(IF AuthMiddleware(r.sess)
               THEN [r EXCEPT !.pc = "connected"]
               ELSE Unauthenticated(r))
  /\ UNCHANGED <<connectedUsers, posts, dbConnected, events, statut, session>>

\* getConnectedUsers() returns (the rows, or [] when its query threw:
\* services/postgres.js lines 118-137), then lines 32-35
ConnectedReturn(i) ==
  /\ reqs[i].kind = "connected" /\ reqs[i].pc = "connected"
  /\ \E ok \in BOOLEAN :
       LET r == Call(reqs[i], "selectConnected", 0, 0, ok) IN
       reqs' = [reqs EXCEPT ![i] =
         Respond(r, 200, [success |-> TRUE,
                          connectedUsers |->
                            IF ok THEN SelectConnected(statut) ELSE {}])]
  /\ UNCHANGED <<connectedUsers, posts, dbConnected, events, statut, session>>

(***************************************************************************)
(* GET /posts (routes/posts.js).  Query parameters are strings, "" when    *)
(* absent; a post's date and hour are compared as the ranks below.         *)
(***************************************************************************)
MaxFeedReqs == 1

\* parseInt(s): None for NaN
ParseInt(s) ==
  CASE s = "0" -> Some(0) [] s = "1" -> Some(1) [] s = "2" -> Some(2)
    [] s = "3" -> Some(3) [] s = "10" -> Some(10) [] s = "2.7" -> Some(2)
    [] OTHER -> None

\* parseInt(req.query.page) || 1 and parseInt(req.query.pageSize) || 10
DefaultPage == 1
DefaultPageSize == 10

\* n || d
OrDefault(n, d) == IF IsSome(n) /\ Val(n) /= 0 THEN Val(n) ELSE d

\* (mutant) the quotient rounded down
TotalPages_Floor(total, pageSize) == total \div pageSize

\* Math.ceil(total / pageSize)
TotalPages(total, pageSize) == (total + pageSize - 1) \div pageSize

Query(page, pageSize, hashtag, filterByOwner, userId, sortBy, sortDirection) ==
  [page |-> page, pageSize |-> pageSize, hashtag |-> hashtag,
   filterByOwner |-> filterByOwner, userId |-> userId, sortBy |-> sortBy,
   sortDirection |-> sortDirection]

NoQuery == Query("", "", "", "", "", "", "")

\* (mutant) the owner constraint is built for 'me' alone
OwnerFilter_MeOnly(q) ==
  IF q.filterByOwner = "me" /\ q.userId /= ""
  THEN Some([op |-> "eq", id |-> ParseInt(q.userId)]) ELSE None

\* lines 52-63: filter.createdBy, if any
OwnerFilter(q) ==
  IF q.filterByOwner /= "" /\ q.userId /= ""
  THEN IF q.filterByOwner = "me"
       THEN Some([op |-> "eq", id |-> ParseInt(q.userId)])
       ELSE IF q.filterByOwner = "others"
       THEN Some([op |-> "ne", id |-> ParseInt(q.userId)])
       ELSE None
  ELSE None

\* lines 44-63
FilterOf(q) ==
  [hashtags |-> IF q.hashtag /= "" THEN Some(q.hashtag) ELSE None,
   createdBy |-> OwnerFilter(q)]

\* the document matches the filter: hashtags holds the tag; createdBy
\* equals, or differs from, the id (NaN equals no number)
Matches(doc, filter) ==
  /\ IsSome(filter.hashtags) =>
       /\ IsSome(doc.hashtags)
       /\ Val(filter.hashtags) \in Range(Val(doc.hashtags))
  /\ IsSome(filter.createdBy) =>
       LET c == Val(filter.createdBy) IN
       IF c.op = "eq" THEN IsSome(c.id) /\ doc.createdBy = Val(c.id)
       ELSE ~IsSome(c.id) \/ doc.createdBy /= Val(c.id)

\* countDocuments(filter)
CountDocuments(store, filter) ==
  Cardinality({oid \in DOMAIN store : Matches(store[oid], filter)})

\* the order of the date and hour strings
DateRank(date) ==
  CASE date = "2025-03-10" -> 1 [] date = "2025-03-11" -> 2
    [] date = "2025-03-12" -> 3 [] OTHER -> 4
HourRank(hour) ==
  CASE hour = "08:00:00" -> 1 [] hour = "14:00:00" -> 2
    [] hour = "14:30:00" -> 3 [] OTHER -> 4

\* lines 69-94: the sort keys, most significant first
SortOptions(q) ==
  LET direction == IF q.sortDirection = "asc" THEN 1 ELSE -1 IN
  IF q.sortBy = "date"
  THEN <<[field |-> "date", dir |-> direction],
         [field |-> "hour", dir |-> direction]>>
  ELSE IF q.sortBy = "owner"
  THEN <<[field |-> "createdBy", dir |-> direction],
         [field |-> "date", dir |-> -1], [field |-> "hour", dir |-> -1]>>
  ELSE IF q.sortBy = "popularity"
  THEN <<[field |-> "likes", dir |-> direction],
         [field |-> "date", dir |-> -1], [field |-> "hour", dir |-> -1]>>
  ELSE <<[field |-> "date", dir |-> -1], [field |-> "hour", dir |-> -1]>>

SortKey(doc, field) ==
  CASE field = "date" -> DateRank(doc.date)
    [] field = "hour" -> HourRank(doc.hour)
    [] field = "createdBy" -> doc.createdBy
    [] OTHER -> doc.likes

\* document a may come before document b under the sort keys from k on
RECURSIVE MayPrecede(_, _, _, _)
MayPrecede(a, b, keys, k) ==
  IF k > Len(keys) THEN TRUE
  ELSE LET x == SortKey(a, keys[k].field) * keys[k].dir
           y == SortKey(b, keys[k].field) * keys[k].dir IN
       IF x < y THEN TRUE
       ELSE IF x > y THEN FALSE
       ELSE MayPrecede(a, b, keys, k + 1)

\* the sequences holding each element of the set once
RECURSIVE Orders(_)
Orders(set) ==
  IF set = {} THEN {<<>>}
  ELSE UNION {{<<x>> \o seq : seq \in Orders(set \ {x})} : x \in set}

\* find(filter).sort(sortOptions): the orders the server may return the
\* matching ids in (documents equal on every key come in either order)
Sorted(store, filter, keys) ==
  {seq \in Orders({oid \in DOMAIN store : Matches(store[oid], filter)}) :
     \A i \in 1..(Len(seq) - 1) :
       MayPrecede(store[seq[i]], store[seq[i + 1]], keys, 1)}

\* .skip(skip).limit(pageSize) of a sorted sequence
SkipLimit(seq, skip, limit) ==
  IF skip >= Len(seq) THEN <<>>
  ELSE SubSeq(seq, skip + 1,
              IF skip + limit < Len(seq) THEN skip + limit ELSE Len(seq))

PostsFailure(r) ==
  Respond(r, 500, Failure("Erreur serveur lors de la récupération des posts"))

NoMongo(r) ==
  Respond(r, 500, Failure("Erreur de connexion à la base de données MongoDB"))

\* authMiddleware, then checkMongoConnection up to its await
\* (middlewares/db-connection.js lines 14-17) or, connected, the handler up
\* to line 30
PostsStart(cookie, q) ==
  /\ Len(reqs) < MaxReqs
  /\ LET r == NewReq("posts", cookie, "", "") @@ [query |-> q] IN
       Receive(IF ~AuthMiddleware(r.sess) THEN Unauthenticated(r)
               ELSE IF dbConnected THEN [r EXCEPT !.pc = "coll"]
               ELSE [r EXCEPT !.pc = "connect"])
  /\ UNCHANGED <<connectedUsers, posts, dbConnected, events, statut, session>>

\* connectToMongoDB() returns (services/mongo.js lines 18-38): connected,
\* connected with the preview query failing (false, dbConnected set), or
\* refused; then db-connection.js lines 18-32
PostsConnect(i) ==
  /\ reqs[i].kind = "posts" /\ reqs[i].pc = "connect"
  /\ \E res \in {"connected", "previewFailed", "refused"} :
       LET r == Call(reqs[i], "connect", 0, 0, res = "connected") IN
       /\ dbConnected' = (dbConnected \/ res /= "refused")
       /\ reqs' = [reqs EXCEPT ![i] =
            IF res = "connected" THEN [r EXCEPT !.pc = "coll"] ELSE NoMongo(r)]
  /\ UNCHANGED <<connectedUsers, posts, events, statut, session>>

\* getCerisonetCollection() returns, then lines 31-66
PostsColl(i) ==
  /\ reqs[i].kind = "posts" /\ reqs[i].pc = "coll"
  /\ reqs' = [reqs EXCEPT ![i] =
       IF ~dbConnected THEN NoMongo(reqs[i])
       ELSE [reqs[i] EXCEPT !.pc = "count"]]
  /\ UNCHANGED <<connectedUsers, posts, dbConnected, events, statut, session>>

\* countDocuments(filter) returns or throws, then lines 68-101
PostsCount(i) ==
  /\ reqs[i].kind = "posts" /\ reqs[i].pc = "count"
  /\ \E ok \in BOOLEAN :
       LET r == Call(reqs[i], "count", 0,
                     CountDocuments(posts, FilterOf(reqs[i].query)), ok) IN
       reqs' = [reqs EXCEPT ![i] =
         IF ok THEN [r EXCEPT !.pc = "find"] ELSE PostsFailure(r)]
  /\ UNCHANGED <<connectedUsers, posts, dbConnected, events, statut, session>>

\* find(filter).sort().skip().limit().toArray() returns or throws, then
\* lines 103-106
PostsFind(i) ==
  /\ reqs[i].kind = "posts" /\ reqs[i].pc = "find"
  /\ \E ok \in BOOLEAN :
       LET r == Call(reqs[i], "find", 0, 0, ok)
           q == r.query
           page == OrDefault(ParseInt(q.page), DefaultPage)
           pageSize == OrDefault(ParseInt(q.pageSize), DefaultPageSize) IN
       IF ok
       THEN \E seq \in Sorted(posts, FilterOf(q), SortOptions(q)) :
              reqs' = [reqs EXCEPT ![i] =
                [r EXCEPT !.pc = "users",
                          !.row = Some(SkipLimit(seq, (page - 1) * pageSize,
                                                 pageSize))]]
       ELSE reqs' = [reqs EXCEPT ![i] = PostsFailure(r)]
  /\ UNCHANGED <<connectedUsers, posts, dbConnected, events, statut, session>>

\* getAllUsers() returns (the rows, or [] when its query threw), then
\* lines 107-166; a post of the response is given by its id
PostsUsers(i) ==
  /\ reqs[i].kind = "posts" /\ reqs[i].pc = "users"
  /\ \E ok \in BOOLEAN :
       LET r == Call(reqs[i], "selectAll", 0, 0, ok)
           total == r.calls[Len(r.calls) - 2].value
           pageSize == OrDefault(ParseInt(r.query.pageSize), DefaultPageSize)
       IN reqs' = [reqs EXCEPT ![i] =
            Respond(r, 200,
                    [success |-> TRUE, posts |-> Val(r.row), total |-> total,
                     page |-> OrDefault(ParseInt(r.query.page), DefaultPage),
                     pageSize |-> pageSize,
                     totalPages |-> TotalPages(total, pageSize)])]
  /\ UNCHANGED <<connectedUsers, posts, dbConnected, events, statut, session>>

(***************************************************************************)
(* The HTTP requests the model receives.                                   *)
(***************************************************************************)
Cookies == {"k1", "k2"}

\* POST /login bodies: valid, wrong password, the stored digest typed as the
\* password, unknown email, password missing
LoginInputs ==
  {<<"k1", "ana@ceri.fr", "pw-ana">>, <<"k1", "ana@ceri.fr", "pw-bob">>,
   <<"k2", "ana@ceri.fr", "5f1c7e2a">>, <<"k2", "zoe@ceri.fr", "pw-ana">>,
   <<"k1", "ana@ceri.fr", "">>}

\* the session routes: login, logout and GET /user
NextAuth ==
  \/ \E in \in LoginInputs : LoginStart(in[1], in[2], in[3])
  \/ \E i \in 1..Len(reqs) : LoginQuery(i)
  \/ \E i \in 1..Len(reqs) : LoginUpdate(i)
  \/ LogoutStart("k1")
  \/ \E i \in 1..Len(reqs) : LogoutUpdate(i)
  \/ \E i \in 1..Len(reqs) : LogoutDestroy(i)
  \/ \E c \in Cookies : GetUser(c)

\* the collection plays no part in the session routes
InitAuth == Init /\ posts = (1 :> PlainPost) /\ dbConnected

SpecAuth == InitAuth /\ [][NextAuth]_vars

\* the protected routes behind authMiddleware, with login and logout
NextGate ==
  \/ LoginStart("k1", "ana@ceri.fr", "pw-ana")
  \/ \E i \in 1..Len(reqs) : LoginQuery(i)
  \/ \E i \in 1..Len(reqs) : LoginUpdate(i)
  \/ LogoutStart("k1")
  \/ \E i \in 1..Len(reqs) : LogoutUpdate(i)
  \/ \E i \in 1..Len(reqs) : LogoutDestroy(i)
  \/ GetUser("k1")
  \/ \E c \in Cookies : ConnectedStart(c)
  \/ \E i \in 1..Len(reqs) : ConnectedReturn(i)
  \/ PostsStart("k1", NoQuery)
  \/ \E i \in 1..Len(reqs) : PostsConnect(i)
  \/ \E i \in 1..Len(reqs) : PostsColl(i)
  \/ \E i \in 1..Len(reqs) : PostsCount(i)
  \/ \E i \in 1..Len(reqs) : PostsFind(i)
  \/ \E i \in 1..Len(reqs) : PostsUsers(i)

InitGate == Init /\ posts = (1 :> PlainPost)

SpecGate == InitGate /\ [][NextGate]_vars

(***************************************************************************)
(* Properties of like-post                                                 *)
(***************************************************************************)
LikeEvents == {k \in 1..Len(events) : events[k].kind = "like"}

AlreadyLikedError(e) ==
  SocketEmit(e.socket, "error", ErrorMsg("Vous avez déjà liké ce post"))

\* a storage call of the event threw, or the collection could not be reached
StorageFailed(e) ==
  \E m \in Range(e.out) :
    /\ m.name = "error"
    /\ m.payload.message \in
         {"Erreur lors du traitement du like",
          "Erreur lors du partage du post",
          "Erreur de connexion à la base de données MongoDB"}

LikedBefore(e) == IsSome(e.pre) /\ e.userId \in Range(Val(e.pre).likedBy)

\* b is a like of the same existing post by the same user, received after a
\* had completed, the storage calls of both having succeeded
SecondLike(a, b) ==
  /\ a \in LikeEvents /\ b \in LikeEvents
  /\ events[a].hasData /\ events[b].hasData
  /\ events[a].postId = events[b].postId
  /\ events[a].userId = events[b].userId /\ events[a].userId /= 0
  /\ IsSome(events[a].pre)
  /\ a \in events[b].before
  /\ events[b].pc = "done"
  /\ ~StorageFailed(events[a]) /\ ~StorageFailed(events[b])

\* nothing else ran between the arrival of a and the completion of b
BackToBack(a, b) ==
  events[a].alone /\ events[b].alone /\ b = a + 1

\* C1: when the same user likes the same existing post twice, the second
\* event arriving after the first has completed, the second is answered with
\* the error "Vous avez déjà liké ce post" and increments nothing; with the
\* user not among the likers before and nothing else running, the counter
\* after the two events is the counter before them plus exactly 1.
C1_SecondLikeRejected ==
  \A a, b \in 1..Len(events) :
    SecondLike(a, b) =>
      /\ events[b].out = <<AlreadyLikedError(events[b])>>
      /\ events[b].inc = 0
      /\ (BackToBack(a, b) /\ ~LikedBefore(events[a])) =>
           /\ Val(events[b].post).likes = Val(events[a].pre).likes + 1
           /\ events[a].inc + events[b].inc = 1

C1_Witness ==
  \E a, b \in 1..Len(events) :
    /\ SecondLike(a, b) /\ BackToBack(a, b) /\ ~LikedBefore(events[a])
    /\ events[b].out = <<AlreadyLikedError(events[b])>>

NoDuplicates(q) == \A j, k \in 1..Len(q) : q[j] = q[k] => j = k

\* C2: under any interleaving of like-post handlers, no post's likedBy
\* sequence contains the same account id twice.
C2_NoDuplicateLikers ==
  \A d \in DOMAIN posts : NoDuplicates(posts[d].likedBy)

\* a completed like of an existing post by a user who had not liked it, no
\* other event in flight while it ran, its storage calls having succeeded
FreshLike(k) ==
  /\ k \in LikeEvents
  /\ events[k].hasData /\ events[k].userId /= 0
  /\ IsSome(events[k].pre) /\ ~LikedBefore(events[k])
  /\ events[k].alone
  /\ events[k].pc = "done"
  /\ ~StorageFailed(events[k])

\* C3: such a like of a post with n likes emits exactly one message, the
\* post-liked{postId, userId, totalLikes} sent to all connections, with
\* totalLikes = n + 1.
C3_LikeBroadcastsTotal ==
  \A k \in 1..Len(events) :
    FreshLike(k) =>
      events[k].out =
        <<[to |-> "all", sock |-> "*", name |-> "post-liked",
           payload |-> [postId |-> events[k].postId,
                        userId |-> events[k].userId,
                        totalLikes |-> Val(events[k].pre).likes + 1]]>>

C3_Witness ==
  \E k \in 1..Len(events) :
    /\ FreshLike(k) /\ Val(events[k].pre).likes = 0
    /\ events[k].out[1].payload.totalLikes = 1

\* a step of the handler of event k
StepOf(k) == k <= Len(events') /\ events'[k].pc /= events[k].pc

\* C4: a like-post for a post whose likedBy already contains the userId is
\* answered, when its storage calls succeed, with the single error "Vous avez
\* déjà liké ce post" to the initiating connection, with no post-liked; and no
\* step of its handler changes the post's likes or likedBy.
C4_AlreadyLikedLeavesPost ==
  /\ [](\A k \in 1..Len(events) :
          (k \in LikeEvents /\ LikedBefore(events[k]) /\ events[k].pc = "done"
             /\ ~StorageFailed(events[k]))
          => /\ events[k].out = <<AlreadyLikedError(events[k])>>
             /\ events[k].inc = 0)
  /\ [][\A k \in 1..Len(events) :
          (k \in LikeEvents /\ LikedBefore(events[k]) /\ StepOf(k))
          => posts' = posts]_vars

C4_Witness ==
  \E k \in 1..Len(events) :
    /\ k \in LikeEvents /\ LikedBefore(events[k]) /\ events[k].pc = "done"
    /\ events[k].out = <<AlreadyLikedError(events[k])>>
    /\ events[k].post = events[k].pre

(***************************************************************************)
(* Properties of share-post                                                *)
(***************************************************************************)
ShareEvents == {k \in 1..Len(events) : events[k].kind = "share"}

ShareSucceeded(e) == \E m \in Range(e.out) : m.name = "share-success"

\* the step is one of the handler of share event k (its arrival included)
ShareStepOf(k) ==
  /\ k <= Len(events') /\ events'[k].kind = "share"
  /\ (k > Len(events) \/ events'[k].pc /= events[k].pc)

\* doc is the share by userId of the document p stored under oid: body
\* equal, hashtags and images copied (an absent list as the empty list),
\* share lineage set, like and comment state fresh
IsShareOf(doc, p, oid, userId) ==
  /\ doc.body = p.body
  /\ doc.hashtags = Some(IF IsSome(p.hashtags) THEN Val(p.hashtags) ELSE <<>>)
  /\ doc.images = Some(IF IsSome(p.images) THEN Val(p.images) ELSE <<>>)
  /\ doc.createdBy = userId
  /\ IsSome(doc.originalPost) /\ ObjectIdOf(Val(doc.originalPost)) = Some(oid)
  /\ doc.sharedFrom = Some(p.createdBy)
  /\ doc.isShared = Some(TRUE)
  /\ doc.likes = 0 /\ doc.likedBy = <<>> /\ doc.comments = <<>>

\* C5: the step by which a share-post of existing post P by user U succeeds
\* adds exactly one document to the collection, the one whose id the handler
\* reports, with body, hashtags and images copied from P, createdBy = U,
\* originalPost designating P, sharedFrom = P's author, isShared = true,
\* likes = 0, likedBy = [] and comments = []; no earlier step of the handler
\* adds a document.
C5_ShareInsertsCopy ==
  [][\A k \in 1..Len(events') :
       (ShareStepOf(k) /\ ShareSucceeded(events'[k])) =>
         /\ events[k].pc = "insert"
         /\ events[k].oid \in DOMAIN posts
         /\ \E n \in DOMAIN posts' :
              /\ n \notin DOMAIN posts
              /\ DOMAIN posts' = DOMAIN posts \cup {n}
              /\ events'[k].newId = Some(n)
              /\ IsShareOf(posts'[n], posts[events[k].oid], events[k].oid,
                           events[k].userId)
     ]_vars
  /\ [][\A k \in 1..Len(events') :
          (ShareStepOf(k) /\ (k > Len(events) \/ events[k].pc /= "insert"))
            => DOMAIN posts' = DOMAIN posts]_vars

C5_Witness ==
  \E k \in ShareEvents :
    /\ ShareSucceeded(events[k]) /\ IsSome(events[k].newId)
    /\ Val(events[k].pre).likes = 1 /\ Val(events[k].pre).comments /= <<>>
    /\ Val(events[k].newId) \in DOMAIN posts
    /\ posts[Val(events[k].newId)].likes = 0
    /\ posts[Val(events[k].newId)].body = Val(events[k].pre).body

\* C6: no step of a share-post handler, whether the event ends in
\* share-success or in an error, changes the document the payload designates:
\* body, likes, likedBy, comments, hashtags, images and share metadata stay.
C6_ShareKeepsOriginal ==
  [][\A k \in 1..Len(events') :
       ShareStepOf(k) =>
         LET o == ObjectIdOf(events'[k].postId) IN
         (IsSome(o) /\ Val(o) \in DOMAIN posts) =>
           (Val(o) \in DOMAIN posts' /\ posts'[Val(o)] = posts[Val(o)])
    ]_vars

C6_Witness ==
  \E k, j \in ShareEvents :
    /\ ShareSucceeded(events[k]) /\ IsSome(events[k].pre)
    /\ events[k].post = events[k].pre
    /\ events[j].pc = "done" /\ ~ShareSucceeded(events[j])
    /\ IsSome(events[j].pre) /\ events[j].post = events[j].pre

(***************************************************************************)
(* Properties of the session routes                                        *)
(***************************************************************************)
Requests(kind) == {k \in 1..Len(reqs) : reqs[k].kind = kind}

\* request b follows request a on the same session, a having responded
\* before b arrived and no other request pending while either ran
Follows(a, b) ==
  /\ a \in 1..Len(reqs) /\ b = a + 1 /\ b <= Len(reqs)
  /\ reqs[a].alone /\ reqs[b].alone
  /\ reqs[a].pc = "done"
  /\ reqs[a].cookie = reqs[b].cookie

\* a step of the handler of request k (its arrival included)
ReqStepOf(k) ==
  /\ k <= Len(reqs')
  /\ (k > Len(reqs) \/ reqs'[k].pc /= reqs[k].pc)

\* the session part of C7: GET /user after a successful login on the same
\* session answers 200 with the id and mail of the login response
LoginThenUserSameAccount ==
  \A a, b \in 1..Len(reqs) :
    (Follows(a, b) /\ reqs[a].kind = "login" /\ reqs[a].status = 200
       /\ reqs[b].kind = "user")
    => /\ reqs[b].status = 200
       /\ IsSome(Val(reqs[b].body).user)
       /\ Val(Val(reqs[b].body).user).id = Val(reqs[a].body).user.id
       /\ Val(Val(reqs[b].body).user).mail = Val(reqs[a].body).user.mail

\* C7: after a successful POST /login, a subsequent GET /user on the same
\* session returns 200 with the same account id and email as the login
\* response, and the account's connection-status flag is 1.
C7_LoginThenUser ==
  /\ LoginThenUserSameAccount
  /\ \A a, b \in 1..Len(reqs) :
       (Follows(a, b) /\ reqs[a].kind = "login" /\ reqs[a].status = 200
          /\ reqs[b].kind = "user" /\ b = Len(reqs))
       => statut[Val(reqs[a].body).user.id] = 1

KnownMail(email) == \E a \in Accounts : Compte[a].mail = email

\* the body names no account, or one whose stored digest is not the digest
\* of the password supplied
InvalidCredentials(r) ==
  /\ r.email /= "" /\ r.password /= ""
  /\ \A a \in Accounts :
       Compte[a].mail = r.email => Compte[a].motpasse /= Sha1(r.password)

\* C8: POST /login with an unknown email, or with a password whose digest
\* differs from the stored one, makes no connection-status write and answers
\* 401 once its lookup has returned (500 if the lookup threw); no step of its
\* handler changes the session store or a connection-status flag.
C8_InvalidLoginRejected ==
  /\ [](\A k \in Requests("login") :
          (InvalidCredentials(reqs[k]) /\ reqs[k].pc = "done") =>
            /\ \A c \in Range(reqs[k].calls) : c.op = "select"
            /\ Len(reqs[k].calls) = 1
            /\ reqs[k].status = IF reqs[k].calls[1].ok THEN 401 ELSE 500
            /\ reqs[k].calls[1].ok =>
                 Val(reqs[k].body).message =
                   IF KnownMail(reqs[k].email) THEN "Mot de passe incorrect"
                   ELSE "Utilisateur non trouvé")
  /\ [][\A k \in 1..Len(reqs') :
          (ReqStepOf(k) /\ reqs'[k].kind = "login"
             /\ InvalidCredentials(reqs'[k]))
          => (session' = session /\ statut' = statut)]_vars

C8_Witness ==
  \E k, j \in Requests("login") :
    /\ InvalidCredentials(reqs[k]) /\ KnownMail(reqs[k].email)
    /\ reqs[k].status = 401
    /\ InvalidCredentials(reqs[j]) /\ ~KnownMail(reqs[j].email)
    /\ reqs[j].status = 401
    /\ session[reqs[k].cookie] = None /\ session[reqs[j].cookie] = None

Protected(k) == reqs[k].kind \in {"user", "connected", "posts"}

\* C9: GET /user, GET /users/connected and GET /posts on a session with no
\* bound account answer 401 on arrival, their handler body never runs and
\* they make no storage call; in particular a protected request that follows
\* a logout that followed a login on the same session answers 401.
C9_ProtectedNeedSession ==
  /\ \A k \in 1..Len(reqs) :
       (Protected(k) /\ ~IsSome(reqs[k].sess)) =>
         /\ reqs[k].pc = "done"
         /\ reqs[k].status = 401
         /\ reqs[k].calls = <<>>
  /\ \A a \in 1..Len(reqs) :
       (Follows(a, a + 1) /\ a + 2 <= Len(reqs) /\ Follows(a + 1, a + 2)
          /\ reqs[a].kind = "login" /\ reqs[a].status = 200
          /\ reqs[a + 1].kind = "logout" /\ reqs[a + 1].status = 200
          /\ Protected(a + 2))
       => reqs[a + 2].status = 401

C9_Witness ==
  \E a \in 1..Len(reqs) :
    /\ Follows(a, a + 1) /\ a + 2 <= Len(reqs) /\ Follows(a + 1, a + 2)
    /\ reqs[a].kind = "login" /\ reqs[a].status = 200
    /\ reqs[a + 1].kind = "logout" /\ reqs[a + 1].status = 200
    /\ reqs[a + 2].kind = "posts" /\ reqs[a + 2].status = 401
    /\ reqs[a + 2].calls = <<>>

\* C10: POST /logout on a session with a bound account issues exactly one
\* connection-status write, of 0 for that account (taking effect when the
\* store accepts it), and on a successful destroy empties the session and
\* clears the cookie; POST /logout on a session with no account issues no
\* write, changes neither a flag nor the emptied session, and still clears the
\* cookie and answers 200 unless the session destroy itself fails; so a
\* second logout right after a first leaves the state as the first left it.
C10_LogoutIdempotent ==
  /\ [](\A k \in Requests("logout") :
          reqs[k].pc = "done" =>
            /\ IsSome(reqs[k].sess) =>
                 /\ Len(reqs[k].calls) = 1
                 /\ reqs[k].calls[1].op = "update"
                 /\ reqs[k].calls[1].id = Val(reqs[k].sess).id
                 /\ reqs[k].calls[1].value = 0
            /\ ~IsSome(reqs[k].sess) => reqs[k].calls = <<>>
            /\ reqs[k].status \in {200, 500}
            /\ reqs[k].cleared = (reqs[k].status = 200)
            /\ reqs[k].status = 500 =>
                 Val(reqs[k].body).message = "Erreur lors de la déconnexion")
  /\ [](\A a, b \in Requests("logout") :
          (Follows(a, b) /\ reqs[a].status = 200 /\ reqs[b].pc = "done")
          => (~IsSome(reqs[b].sess) /\ reqs[b].calls = <<>>))
  /\ [][\A k \in 1..Len(reqs) :
          (ReqStepOf(k) /\ reqs[k].kind = "logout") =>
            /\ (IsSome(reqs[k].sess) /\ reqs[k].pc = "update"
                  /\ reqs'[k].calls[1].ok)
                 => statut' = [statut EXCEPT ![Val(reqs[k].sess).id] = 0]
            /\ reqs'[k].status = 200 => session'[reqs[k].cookie] = None
            /\ ~IsSome(reqs[k].sess) =>
                 /\ statut' = statut
                 /\ session[reqs[k].cookie] = None => session' = session]_vars

C10_Witness ==
  \E a, b \in Requests("logout") :
    /\ Follows(a, b)
    /\ IsSome(reqs[a].sess) /\ reqs[a].status = 200 /\ reqs[a].calls[1].ok
    /\ reqs[b].status = 200 /\ reqs[b].cleared /\ reqs[b].calls = <<>>
    /\ statut[Val(reqs[a].sess).id] = 0
    /\ session[reqs[b].cookie] = None

(***************************************************************************)
(* Socket presence: authenticate, get-connected-users and disconnect.      *)
(* connectedUsers is a JavaScript Map: its entries are kept in insertion   *)
(* order, set() on a key it holds replaces the value in place.             *)
(***************************************************************************)
MaxPresenceEvents == 2

Sockets == {"s1", "s2"}

\* socket.broadcast.emit reaches every connection but the initiating one
BroadcastEmit(sock, name, payload) ==
  [to |-> "others", sock |-> sock, name |-> name, payload |-> payload]

\* (mutant) set() keeps the entry the map already holds for the key
MapSet_KeepFirst(map, id, sock, name) ==
  IF \E k \in 1..Len(map) : map[k].id = id
  THEN map
  ELSE Append(map, [id |-> id, socket |-> sock, name |-> name])

\* (mutant) set() adds an entry whether or not the map holds the key
MapSet_Append(map, id, sock, name) ==
  Append(map, [id |-> id, socket |-> sock, name |-> name])

\* connectedUsers.set(id, {socket, userData})
MapSet(map, id, sock, name) ==
  LET entry == [id |-> id, socket |-> sock, name |-> name] IN
  IF \E k \in 1..Len(map) : map[k].id = id
  THEN [k \in 1..Len(map) |-> IF map[k].id = id THEN entry ELSE map[k]]
  ELSE Append(map, entry)

\* (mutant) the scan matches the entries of every socket
MapScan_AnySocket(map, sock) == IF map = <<>> THEN 0 ELSE Len(map)

\* lines 91-96: the forEach keeps the last key whose value.socket is the
\* socket's id (0: none)
MapScan(map, sock) ==
  IF \E k \in 1..Len(map) : map[k].socket = sock
  THEN CHOOSE k \in 1..Len(map) :
         /\ map[k].socket = sock
         /\ \A j \in 1..Len(map) : map[j].socket = sock => j <= k
  ELSE 0

\* (mutant) the entry found is left in the map
MapDelete_Keep(map, k) == map

\* connectedUsers.delete(key), for the key at position k
MapDelete(map, k) ==
  [j \in 1..(Len(map) - 1) |-> IF j < k THEN map[j] ELSE map[j + 1]]

\* the socket has disconnected: it sends no further event
Closed(sock) ==
  \E k \in 1..Len(events) :
    events[k].kind = "disconnect" /\ events[k].socket = sock

UserData(id) ==
  [hasData |-> TRUE, userId |-> id,
   userName |-> IF id = 1 THEN "Ana" ELSE "Bob"]
NoUserData == [hasData |-> FALSE, userId |-> 0, userName |-> ""]

\* an event of a presence handler; `found` is the entry the disconnect scan
\* found, `calls` the storage calls made
NewPresenceEvent(kind, sock, d) ==
  [kind |-> kind, socket |-> sock, hasData |-> d.hasData,
   userId |-> d.userId, userName |-> d.userName,
   pc |-> "start", out |-> <<>>, calls |-> <<>>, found |-> None,
   alone |-> \A k \in 1..Len(events) : ~InFlight(events[k])]

\* authenticate payloads: an account on either socket, a second account on
\* a socket, no userData, userData without id
AuthenticateInputs ==
  {<<"s1", UserData(1)>>, <<"s2", UserData(1)>>, <<"s2", UserData(2)>>,
   <<"s1", NoUserData>>, <<"s2", UserData(0)>>}

\* (mutant) any payload passes
HasAccountId_AnyPayload(d) == d.hasData

\* line 38: userData && userData.id
HasAccountId(d) == d.hasData /\ d.userId /= 0

\* lines 37-42
AuthenticateStart(sock, d) ==
  /\ Len(events) < MaxPresenceEvents
  /\ ~Closed(sock)
  /\ LET e == NewPresenceEvent("authenticate", sock, d) IN
       Arrive(IF HasAccountId(d)
              THEN [e EXCEPT !.pc = "update"]
              ELSE [e EXCEPT !.pc = "done"])
  /\ UNCHANGED <<connectedUsers, posts, dbConnected, statut, session, reqs>>

\* updateUserConnectionStatus(userData.id, 1) returns, then lines 45-52
AuthenticateUpdate(i) ==
  /\ events[i].kind = "authenticate" /\ events[i].pc = "update"
  /\ \E ok \in BOOLEAN :
       LET e == Call(events[i], "update", events[i].userId, 1, ok) IN
       /\ statut' = IF ok THEN UpdateStatut(statut, e.userId, 1) ELSE statut
       /\ connectedUsers' =
            MapSet(connectedUsers, e.userId, e.socket, e.userName)
       /\ events' = [events EXCEPT ![i] = [e EXCEPT !.pc = "query"]]
  /\ UNCHANGED <<posts, dbConnected, session, reqs>>

\* getConnectedUsers() returns (the rows, or [] when its query threw), then
\* lines 55-62
AuthenticateQuery(i) ==
  /\ events[i].kind = "authenticate" /\ events[i].pc = "query"
  /\ \E ok \in BOOLEAN :
       LET e == Call(events[i], "selectConnected", 0, 0, ok)
           rows == IF ok THEN SelectConnected(statut) ELSE {} IN
       events' = [events EXCEPT ![i] =
         [e EXCEPT !.pc = "done",
                   !.out = <<BroadcastEmit(e.socket, "user-connected",
                                [id |-> e.userId, name |-> e.userName]),
                             SocketEmit(e.socket, "connected-users", rows)>>]]
  /\ UNCHANGED <<connectedUsers, posts, dbConnected, statut, session, reqs>>

\* lines 76-78
GetConnectedStart(sock) ==
  /\ Len(events) < MaxPresenceEvents
  /\ ~Closed(sock)
  /\ Arrive([NewPresenceEvent("get-connected-users", sock, NoUserData)
               EXCEPT !.pc = "query"])
  /\ UNCHANGED <<connectedUsers, posts, dbConnected, statut, session, reqs>>

\* getConnectedUsers() returns, then line 79
GetConnectedReturn(i) ==
  /\ events[i].kind = "get-connected-users" /\ events[i].pc = "query"
  /\ \E ok \in BOOLEAN :
       LET e == Call(events[i], "selectConnected", 0, 0, ok)
           rows == IF ok THEN SelectConnected(statut) ELSE {} IN
       events' = [events EXCEPT ![i] =
         [e EXCEPT !.pc = "done",
                   !.out = <<SocketEmit(e.socket, "connected-users", rows)>>]]
  /\ UNCHANGED <<connectedUsers, posts, dbConnected, statut, session, reqs>>

\* lines 87-104
DisconnectStart(sock) ==
  /\ Len(events) < MaxPresenceEvents
  /\ ~Closed(sock)
  /\ LET e == NewPresenceEvent("disconnect", sock, NoUserData)
         k == MapScan(connectedUsers, sock) IN
       IF k /= 0
       THEN /\ Arrive([e EXCEPT !.pc = "update",
                                !.found = Some(connectedUsers[k])])
            /\ connectedUsers' = MapDelete(connectedUsers, k)
       ELSE /\ Arrive([e EXCEPT !.pc = "done"])
            /\ connectedUsers' = connectedUsers
  /\ UNCHANGED <<posts, dbConnected, statut, session, reqs>>

\* updateUserConnectionStatus(disconnectedUserId, 0) returns, then lines
\* 107-111
DisconnectUpdate(i) ==
  /\ events[i].kind = "disconnect" /\ events[i].pc = "update"
  /\ \E ok \in BOOLEAN :
       LET u == Val(events[i].found)
           e == Call(events[i], "update", u.id, 0, ok) IN
       /\ statut' = IF ok THEN UpdateStatut(statut, u.id, 0) ELSE statut
       /\ events' = [events EXCEPT ![i] =
            [e EXCEPT !.pc = "done",
                      !.out = <<BroadcastEmit(e.socket, "user-disconnected",
                                   [id |-> u.id, name |-> u.name])>>]]
  /\ UNCHANGED <<connectedUsers, posts, dbConnected, session, reqs>>

NextPresence ==
  \/ \E in \in AuthenticateInputs : AuthenticateStart(in[1], in[2])
  \/ \E i \in 1..Len(events) : AuthenticateUpdate(i)
  \/ \E i \in 1..Len(events) : AuthenticateQuery(i)
  \/ \E sock \in Sockets : GetConnectedStart(sock)
  \/ \E i \in 1..Len(events) : GetConnectedReturn(i)
  \/ \E sock \in Sockets : DisconnectStart(sock)
  \/ \E i \in 1..Len(events) : DisconnectUpdate(i)

InitPresence == Init /\ posts = (1 :> PlainPost) /\ dbConnected

SpecPresence == InitPresence /\ [][NextPresence]_vars

(***************************************************************************)
(* Properties of the presence handlers                                     *)
(***************************************************************************)
PresenceEvents(kind) == {k \in 1..Len(events) : events[k].kind = kind}

\* this step is the arrival of event k, of the given kind
Arrival(k, kind) ==
  /\ Len(events') = Len(events) + 1 /\ k = Len(events')
  /\ events'[k].kind = kind

\* an authenticate of the socket that carried an account id has returned
CompletedAuthenticate(sock) ==
  \E k \in PresenceEvents("authenticate") :
    /\ events[k].socket = sock /\ events[k].pc = "done"
    /\ events[k].hasData /\ events[k].userId /= 0

HasEntry(sock) == \E k \in 1..Len(connectedUsers) : connectedUsers[k].socket = sock

\* the disconnect that arrives in this step does nothing
DisconnectIsNoOp(k) ==
  /\ connectedUsers' = connectedUsers
  /\ statut' = statut
  /\ events'[k].pc = "done"
  /\ events'[k].calls = <<>> /\ events'[k].out = <<>>

\* C11 as stated: a disconnect of a socket none of whose authenticate
\* handlers has returned leaves the presence map unchanged, makes no
\* connection-status write and broadcasts nothing.
C11_DisconnectBeforeAuthCompletes ==
  [][\A k \in 1..Len(events') :
       (Arrival(k, "disconnect")
          /\ ~CompletedAuthenticate(events'[k].socket))
       => DisconnectIsNoOp(k)]_vars

\* C11: a disconnect of a socket that has no presence entry (no authenticate
\* of it has reached the map insertion, or its entry was overwritten) leaves
\* the presence map unchanged, makes no connection-status write and
\* broadcasts no user-disconnected event, then and ever after.
C11_DisconnectWithoutEntry ==
  /\ [][\A k \in 1..Len(events') :
          (Arrival(k, "disconnect") /\ ~HasEntry(events'[k].socket))
          => DisconnectIsNoOp(k)]_vars
  /\ [](\A k \in PresenceEvents("disconnect") :
          ~IsSome(events[k].found) =>
            /\ events[k].pc = "done"
            /\ events[k].calls = <<>> /\ events[k].out = <<>>)

C11_Witness ==
  \E k \in PresenceEvents("disconnect") :
    /\ ~IsSome(events[k].found) /\ events[k].out = <<>>
    /\ connectedUsers /= <<>>
    /\ \E a \in PresenceEvents("authenticate") :
         a < k /\ events[a].socket /= events[k].socket

\* this step resumes handler k, of the given kind, from position pc
Resumes(k, kind, pc) ==
  /\ k <= Len(events) /\ Len(events') = Len(events)
  /\ events[k].kind = kind /\ events[k].pc = pc
  /\ events'[k].pc /= pc

StoreReachable(e) == \A c \in Range(e.calls) : c.ok

EntriesOf(map, id) == {k \in 1..Len(map) : map[k].id = id}

OtherEntries(map, id) == SelectSeq(map, LAMBDA ent : ent.id /= id)

ConnectedUsersReply(e) ==
  {m \in Range(e.out) : m.name = "connected-users"}

\* the write, the map insertion, the broadcast and the reply of an
\* authenticate that carries an account id, the store being reachable
AuthenticateEffects ==
  /\ [][\A k \in 1..Len(events) :
          Resumes(k, "authenticate", "update") =>
            LET e == events'[k] IN
            /\ e.calls = <<[op |-> "update", id |-> e.userId, value |-> 1,
                            ok |-> e.calls[1].ok]>>
            /\ e.calls[1].ok => statut' = UpdateStatut(statut, e.userId, 1)
            /\ Cardinality(EntriesOf(connectedUsers', e.userId)) = 1
            /\ \A j \in EntriesOf(connectedUsers', e.userId) :
                 connectedUsers'[j] =
                   [id |-> e.userId, socket |-> e.socket, name |-> e.userName]
            /\ OtherEntries(connectedUsers', e.userId)
                 = OtherEntries(connectedUsers, e.userId)]_vars
  /\ [][\A k \in 1..Len(events) :
          (Resumes(k, "authenticate", "query") /\ StoreReachable(events'[k]))
          => LET e == events'[k] IN
             /\ e.pc = "done"
             /\ e.out =
                  <<[to |-> "others", sock |-> e.socket,
                     name |-> "user-connected",
                     payload |-> [id |-> e.userId, name |-> e.userName]],
                    [to |-> "socket", sock |-> e.socket,
                     name |-> "connected-users",
                     payload |-> {a \in Accounts : statut[a] = 1}]>>]_vars

\* C12 as stated: the connected-users reply of an authenticate handled with
\* the store reachable always includes the initiator's account.
C12_ReplyIncludesInitiator ==
  \A k \in PresenceEvents("authenticate") :
    (events[k].pc = "done" /\ events[k].userId /= 0
       /\ StoreReachable(events[k]))
    => \A m \in ConnectedUsersReply(events[k]) : events[k].userId \in m.payload

\* C12: an authenticate carrying an account id, handled with the store
\* reachable, writes connection-status 1 for the id, sets the presence entry
\* of the id to this socket (replacing a previous one), broadcasts
\* user-connected{id,name} to the other connections and then sends the
\* initiator alone connected-users holding the accounts whose flag is 1 at
\* query time; the reply includes the initiator when no other event was
\* handled while the handler ran.
C12_AuthenticateAnnounces ==
  /\ AuthenticateEffects
  /\ [](\A k \in PresenceEvents("authenticate") :
          (events[k].pc = "done" /\ events[k].userId /= 0
             /\ StoreReachable(events[k]) /\ events[k].alone)
          => /\ ConnectedUsersReply(events[k]) /= {}
             /\ \A m \in ConnectedUsersReply(events[k]) :
                  events[k].userId \in m.payload /\ m.to = "socket")

C12_Witness ==
  \E a, b \in PresenceEvents("authenticate") :
    /\ a < b /\ events[a].userId = events[b].userId
    /\ events[a].socket /= events[b].socket
    /\ events[a].pc = "done" /\ events[b].pc = "done"
    /\ StoreReachable(events[a]) /\ StoreReachable(events[b])
    /\ events[a].alone /\ events[b].alone
    /\ connectedUsers = <<[id |-> events[b].userId,
                           socket |-> events[b].socket,
                           name |-> events[b].userName]>>
    /\ statut[events[b].userId] = 1
    /\ \E m \in ConnectedUsersReply(events[b]) :
         events[b].userId \in m.payload

\* the last entry of the socket in the map
LastEntryOf(map, sock) ==
  CHOOSE k \in 1..Len(map) :
    /\ map[k].socket = sock
    /\ \A j \in 1..Len(map) : map[j].socket = sock => j <= k

\* C13: a disconnect of a socket that has a presence entry removes that
\* entry (the socket's last-inserted one) and no other from the presence map,
\* issues one connection-status write of 0 for the entry's account id (the
\* flag is 0 once the store accepts it) and then broadcasts
\* user-disconnected{id,name} with that id to the other connections.
C13_DisconnectRemovesEntry ==
  /\ [][\A k \in 1..Len(events') :
          (Arrival(k, "disconnect") /\ HasEntry(events'[k].socket)) =>
            LET j == LastEntryOf(connectedUsers, events'[k].socket) IN
            /\ events'[k].found = Some(connectedUsers[j])
            /\ events'[k].pc = "update"
            /\ Len(connectedUsers') = Len(connectedUsers) - 1
            /\ \A i \in 1..Len(connectedUsers') :
                 connectedUsers'[i] =
                   connectedUsers[IF i < j THEN i ELSE i + 1]
            /\ EntriesOf(connectedUsers', connectedUsers[j].id) = {}]_vars
  /\ [][\A k \in 1..Len(events) :
          Resumes(k, "disconnect", "update") =>
            LET e == events'[k]
                u == Val(e.found) IN
            /\ e.pc = "done"
            /\ e.calls = <<[op |-> "update", id |-> u.id, value |-> 0,
                            ok |-> e.calls[1].ok]>>
            /\ e.calls[1].ok => statut' = UpdateStatut(statut, u.id, 0)
            /\ e.out = <<[to |-> "others", sock |-> e.socket,
                          name |-> "user-disconnected",
                          payload |-> [id |-> u.id, name |-> u.name]]>>]_vars

C13_Witness ==
  \E k \in PresenceEvents("disconnect") :
    /\ IsSome(events[k].found) /\ events[k].pc = "done"
    /\ Val(events[k].found).socket = events[k].socket
    /\ StoreReachable(events[k])
    /\ statut[Val(events[k].found).id] = 0
    /\ EntriesOf(connectedUsers, Val(events[k].found).id) = {}
    /\ \E m \in Range(events[k].out) :
         m.name = "user-disconnected" /\ m.to = "others"
         /\ m.payload.id = Val(events[k].found).id

(***************************************************************************)
(* Properties of the share-post notifications                              *)
(***************************************************************************)
ShareNotices(e) ==
  {j \in 1..Len(e.out) : e.out[j].name \in {"post-shared", "share-success"}}

\* C14: a share-post emits post-shared and share-success only in the step in
\* which its insert is acknowledged: post-shared to all connections first,
\* then share-success to the initiating connection alone, both carrying the
\* id under which the document was inserted in that step; a share whose
\* insert is not acknowledged emits neither and sends the initiator an error.
C14_ShareNotifiesAfterInsert ==
  /\ [](\A k \in ShareEvents :
          LET e == events[k] IN
          ShareNotices(e) /= {} =>
            /\ e.pc = "done" /\ Len(e.out) = 2 /\ IsSome(e.newId)
            /\ e.out[1].name = "post-shared" /\ e.out[1].to = "all"
            /\ e.out[1].payload.postId = e.postId
            /\ e.out[1].payload.newPostId = Val(e.newId)
            /\ e.out[1].payload.userId = e.userId
            /\ e.out[2].name = "share-success" /\ e.out[2].to = "socket"
            /\ e.out[2].sock = e.socket
            /\ e.out[2].payload.newPostId = Val(e.newId)
            /\ Val(e.newId) \in DOMAIN posts)
  /\ [][\A k \in 1..Len(events) :
          (ShareStepOf(k) /\ events[k].pc = "insert") =>
            LET e == events'[k] IN
            IF ShareNotices(e) /= {}
            THEN /\ ShareNotices(events[k]) = {}
                 /\ DOMAIN posts' = DOMAIN posts \cup {Val(e.newId)}
                 /\ Val(e.newId) \notin DOMAIN posts
            ELSE /\ Len(e.out) = 1
                 /\ e.out[1].name = "error" /\ e.out[1].to = "socket"
                 /\ e.out[1].sock = e.socket]_vars

C14_Witness ==
  \E k, j \in ShareEvents :
    /\ ShareNotices(events[k]) = {1, 2}
    /\ Val(events[k].newId) \in DOMAIN posts
    /\ events[j].pc = "done" /\ ShareNotices(events[j]) = {}
    /\ events[j].out =
         <<SocketEmit(events[j].socket, "error",
                      ErrorMsg("Erreur lors de la sauvegarde du partage"))>>

(***************************************************************************)
(* add-comment (sockets/handlers/comment.js).  The handler filters on the  *)
(* post id as the payload carries it, a string; the driver compares values *)
(* with their types and the documents are keyed by ObjectId.               *)
(***************************************************************************)
MaxCommentEvents == 2

\* a filter value as the driver sends it
StringId(s) == [type |-> "string", value |-> s]
ObjectIdValue(oid) == [type |-> "objectId", value |-> oid]

\* {_id: v} matches the document keyed by oid
MatchesId(oid, v) == v.type = "objectId" /\ v.value = oid

\* updateOne({_id: v}, {$push: {comments: c}})
PushComment(store, v, c) ==
  [oid \in DOMAIN store |->
     IF MatchesId(oid, v)
     THEN [store[oid] EXCEPT !.comments = Append(@, c)]
     ELSE store[oid]]

\* the document a payload's post id designates in a store, if any
TargetIn(store, postId) ==
  IF IsSome(ObjectIdOf(postId))
  THEN FindById(store, Val(ObjectIdOf(postId))) ELSE None

\* new ObjectId(): an id no other comment has
CommentIdOf(i) ==
  CASE i = 1 -> "c-e1" [] i = 2 -> "c-e2" [] i = 3 -> "c-e3"
    [] OTHER -> "c-e4"

CommentPayload(postId, userId, content) ==
  [hasData |-> TRUE, postId |-> postId, userId |-> userId,
   userName |-> IF userId = 1 THEN "Ana" ELSE "Bob", content |-> content]
NoCommentPayload ==
  [hasData |-> FALSE, postId |-> IdAbsent, userId |-> 0, userName |-> "",
   content |-> None]

\* the add-comment events the model receives: complete for an existing
\* post, content absent, post unknown, post id absent, no payload
CommentInputs ==
  {<<"s1", CommentPayload(IdP1, 1, Some("salut"))>>,
   <<"s2", CommentPayload(IdP1, 2, None)>>,
   <<"s1", CommentPayload(IdGone, 1, Some("salut"))>>,
   <<"s2", CommentPayload(IdAbsent, 2, Some("salut"))>>,
   <<"s1", NoCommentPayload>>}

NewCommentEvent(sock, d) ==
  NewEvent("comment", sock, d) @@ [content |-> d.content, comment |-> None]

\* lines 74-77
CommentThrown(e) ==
  [Finish(e, SocketEmit(e.socket, "error",
                        ErrorMsg("Erreur lors de l'ajout du commentaire")))
     EXCEPT !.threw = TRUE]

\* lines 24-31: destructuring an absent payload throws
CommentStart(sock, d) ==
  /\ Len(events) < MaxCommentEvents
  /\ LET e == NewCommentEvent(sock, d) IN
       Arrive(IF ~d.hasData THEN CommentThrown(e)
              ELSE [e EXCEPT !.pc = "getColl"])
  /\ UNCHANGED <<connectedUsers, posts, dbConnected, statut, session, reqs>>

\* lines 42-48
NewComment(e, i) ==
  [id |-> CommentIdOf(i), commentedBy |-> e.userId, text |-> e.content,
   date |-> NowDate, hour |-> NowHour]

\* getCerisonetCollection returns (mongo.js lines 45-55), then lines 32-54
CommentGetColl(i) ==
  /\ events[i].kind = "comment" /\ events[i].pc = "getColl"
  /\ \E up \in BOOLEAN :
       LET e == events[i] IN
       /\ dbConnected' = (dbConnected \/ up)
       /\ events' = [events EXCEPT ![i] =
            IF ~dbConnected'
            THEN Finish(e, SocketEmit(e.socket, "error",
                   ErrorMsg("Erreur de connexion à la base de données MongoDB")))
            ELSE [e EXCEPT !.pc = "update",
                           !.comment = Some(NewComment(e, i))]]
  /\ UNCHANGED <<connectedUsers, posts, statut, session, reqs>>

\* lines 63-72
NewCommentMsg(e) ==
  IoEmit("new-comment",
         [id |-> Val(e.comment).id, postId |-> e.postId, userId |-> e.userId,
          userName |-> e.userName, commentedByName |-> e.userName,
          text |-> e.content, date |-> NowDate, hour |-> NowHour])

\* the updateOne of lines 51-54 returns or throws, then lines 56-72;
\* updateOne resolves to a result object, so !updateResult is false
CommentUpdate(i) ==
  /\ events[i].kind = "comment" /\ events[i].pc = "update"
  /\ \E ok \in BOOLEAN :
       LET e == events[i] IN
       /\ posts' = IF ok
                   THEN PushComment(posts, StringId(e.postId), Val(e.comment))
                   ELSE posts
       /\ events' = [events EXCEPT ![i] =
            IF ok
            THEN [Finish(e, NewCommentMsg(e))
                    EXCEPT !.post = TargetIn(posts', e.postId)]
            ELSE CommentThrown(e)]
  /\ UNCHANGED <<connectedUsers, dbConnected, statut, session, reqs>>

(***************************************************************************)
(* add-comment as the other copy of the handler in the repository writes   *)
(* it (unnamed/part_003): the payload is validated, the post id is parsed  *)
(* into an ObjectId and an unmatched update is reported.                   *)
(***************************************************************************)
\* lines 24-37
ValidatedCommentStart(sock, d) ==
  /\ Len(events) < MaxCommentEvents
  /\ LET e == [NewCommentEvent(sock, d) EXCEPT !.kind = "validated-comment"] IN
       Arrive(IF ~d.hasData THEN CommentThrown(e)
              ELSE IF d.postId = IdAbsent \/ d.userId = 0 \/ ~IsSome(d.content)
              THEN Finish(e, SocketEmit(e.socket, "error",
                     ErrorMsg("Données de commentaire incomplètes")))
              ELSE [e EXCEPT !.pc = "getColl"])
  /\ UNCHANGED <<connectedUsers, posts, dbConnected, statut, session, reqs>>

\* getCerisonetCollection returns, then lines 38-70
ValidatedCommentGetColl(i) ==
  /\ events[i].kind = "validated-comment" /\ events[i].pc = "getColl"
  /\ \E up \in BOOLEAN :
       LET e == events[i] IN
       /\ dbConnected' = (dbConnected \/ up)
       /\ events' = [events EXCEPT ![i] =
            IF ~dbConnected'
            THEN Finish(e, SocketEmit(e.socket, "error",
                   ErrorMsg("Erreur de connexion à la base de données MongoDB")))
            ELSE IF ~IsSome(ObjectIdOf(e.postId))
            THEN Finish(e, SocketEmit(e.socket, "error",
                   ErrorMsg("Format d'ID de post invalide")))
            ELSE [e EXCEPT !.pc = "update",
                           !.oid = Val(ObjectIdOf(e.postId)),
                           !.comment = Some(NewComment(e, i))]]
  /\ UNCHANGED <<connectedUsers, posts, statut, session, reqs>>

\* the updateOne of lines 67-70 returns or throws, then lines 72-89
ValidatedCommentUpdate(i) ==
  /\ events[i].kind = "validated-comment" /\ events[i].pc = "update"
  /\ \E ok \in BOOLEAN :
       LET e == events[i] IN
       /\ posts' = IF ok
                   THEN PushComment(posts, ObjectIdValue(e.oid), Val(e.comment))
                   ELSE posts
       /\ events' = [events EXCEPT ![i] =
            IF ~ok THEN CommentThrown(e)
            ELSE IF MatchedCount(posts, e.oid) = 0
            THEN Finish(e, SocketEmit(e.socket, "error",
                                      ErrorMsg("Post non trouvé")))
            ELSE [Finish(e, NewCommentMsg(e))
                    EXCEPT !.post = TargetIn(posts', e.postId)]]
  /\ UNCHANGED <<connectedUsers, dbConnected, statut, session, reqs>>

NextComment ==
  \/ \E in \in CommentInputs : CommentStart(in[1], in[2])
  \/ \E i \in 1..Len(events) : CommentGetColl(i)
  \/ \E i \in 1..Len(events) : CommentUpdate(i)
  \/ \E in \in CommentInputs : ValidatedCommentStart(in[1], in[2])
  \/ \E i \in 1..Len(events) : ValidatedCommentGetColl(i)
  \/ \E i \in 1..Len(events) : ValidatedCommentUpdate(i)

SpecComment == Init /\ [][NextComment]_vars

(***************************************************************************)
(* Properties of add-comment                                               *)
(***************************************************************************)
CommentEvents == {k \in DoneEvents : events[k].kind = "comment"}

Broadcasts(e) == {m \in Range(e.out) : m.name = "new-comment"}

ErrorsTo(e) ==
  {m \in Range(e.out) :
     m.name = "error" /\ m.to = "socket" /\ m.sock = e.socket}

\* a storage call of the handler failed
CommentStorageFailed(e) ==
  \E m \in Range(e.out) :
    /\ m.name = "error"
    /\ m.payload.message \in
         {"Erreur de connexion à la base de données MongoDB",
          "Erreur lors de l'ajout du commentaire"}

\* C15: an add-comment event in which postId, userId or content is absent
\* emits an error to the initiating connection, appends no comment to any
\* post and broadcasts no new-comment.
C15_CommentValidates ==
  \A k \in CommentEvents :
    LET e == events[k] IN
    (~e.hasData \/ e.postId = IdAbsent \/ e.userId = 0 \/ ~IsSome(e.content))
    => /\ ErrorsTo(e) /= {}
       /\ Broadcasts(e) = {}
       /\ e.post = e.pre

\* C16: an add-comment event whose postId matches no post document emits
\* 'Post non trouvé' to the initiating connection and broadcasts no
\* new-comment (its storage calls having succeeded).
C16_CommentNotFound ==
  \A k \in CommentEvents :
    LET e == events[k] IN
    (e.hasData /\ e.postId /= IdAbsent /\ e.userId /= 0 /\ IsSome(e.content)
       /\ ~IsSome(e.pre) /\ ~CommentStorageFailed(e))
    => /\ e.out = <<SocketEmit(e.socket, "error", ErrorMsg("Post non trouvé"))>>
       /\ Broadcasts(e) = {}

\* C17: an add-comment on an existing post that broadcast new-comment, run
\* with no other event interleaved, has appended exactly one comment
\* (commentedBy = userId, text = content) at the end of the post's comments
\* and left its earlier comments, likes and likedBy unchanged.
C17_CommentAppends ==
  \A k \in CommentEvents :
    LET e == events[k] IN
    (Broadcasts(e) /= {} /\ IsSome(e.pre) /\ e.alone)
    => /\ Cardinality(Broadcasts(e)) = 1 /\ Len(e.out) = 1
       /\ IsSome(e.post)
       /\ Len(Val(e.post).comments) = Len(Val(e.pre).comments) + 1
       /\ SubSeq(Val(e.post).comments, 1, Len(Val(e.pre).comments))
            = Val(e.pre).comments
       /\ Val(e.post).comments[Len(Val(e.post).comments)].commentedBy
            = e.userId
       /\ Val(e.post).comments[Len(Val(e.post).comments)].text = e.content
       /\ Val(e.post).likes = Val(e.pre).likes
       /\ Val(e.post).likedBy = Val(e.pre).likedBy

\* the three properties above with the events of the validated copy of
\* the handler (unnamed/part_003) in place of those of comment.js
ValidatedCommentEvents ==
  {k \in DoneEvents : events[k].kind = "validated-comment"}

ValidatedCopyValidates ==
  \A k \in ValidatedCommentEvents :
    LET e == events[k] IN
    (~e.hasData \/ e.postId = IdAbsent \/ e.userId = 0 \/ ~IsSome(e.content))
    => /\ ErrorsTo(e) /= {}
       /\ Broadcasts(e) = {}
       /\ e.post = e.pre

ValidatedCopyNotFound ==
  \A k \in ValidatedCommentEvents :
    LET e == events[k] IN
    (e.hasData /\ e.postId /= IdAbsent /\ e.userId /= 0 /\ IsSome(e.content)
       /\ ~IsSome(e.pre) /\ ~CommentStorageFailed(e))
    => /\ e.out = <<SocketEmit(e.socket, "error", ErrorMsg("Post non trouvé"))>>
       /\ Broadcasts(e) = {}

ValidatedCopyAppends ==
  \A k \in ValidatedCommentEvents :
    LET e == events[k] IN
    (Broadcasts(e) /= {} /\ IsSome(e.pre) /\ e.alone)
    => /\ Cardinality(Broadcasts(e)) = 1 /\ Len(e.out) = 1
       /\ IsSome(e.post)
       /\ Val(e.post) =
            [Val(e.pre) EXCEPT !.comments =
               Append(@, [id |-> Val(e.comment).id, commentedBy |-> e.userId,
                          text |-> e.content, date |-> NowDate,
                          hour |-> NowHour])]

(***************************************************************************)
(* Properties of get-connected-users                                       *)
(***************************************************************************)
MapIds == {connectedUsers[k].id : k \in 1..Len(connectedUsers)}

\* C18: a get-connected-users event, whatever the state of its connection,
\* is answered with exactly one message, connected-users to the initiating
\* connection alone, holding the accounts whose status flag is 1 in the
\* store when the query returns, whatever the presence map holds, and the
\* empty list when the query failed; no error event is emitted.
C18_RosterFromStore ==
  /\ [][\A k \in 1..Len(events) :
          Resumes(k, "get-connected-users", "query") =>
            LET e == events'[k] IN
            /\ e.pc = "done"
            /\ Len(e.calls) = 1
            /\ e.out =
                 <<[to |-> "socket", sock |-> e.socket,
                    name |-> "connected-users",
                    payload |-> IF e.calls[1].ok
                                THEN {a \in Accounts : statut[a] = 1}
                                ELSE {}]>>
            /\ connectedUsers' = connectedUsers /\ statut' = statut]_vars
  /\ [](\A k \in PresenceEvents("get-connected-users") :
          /\ \A m \in Range(events[k].out) : m.name /= "error"
          /\ events[k].pc \in {"query", "done"})

C18_Witness ==
  \E k \in PresenceEvents("get-connected-users") :
    /\ events[k].pc = "done" /\ StoreReachable(events[k])
    /\ HasEntry(events[k].socket)
    /\ events[k].out[1].payload = {}
    /\ MapIds /= {}

\* the query fails while an account is flagged: the reply is empty
C18_WitnessUnreachable ==
  \E k \in PresenceEvents("get-connected-users") :
    /\ events[k].pc = "done" /\ ~StoreReachable(events[k])
    /\ events[k].out[1].payload = {}
    /\ \E a \in Accounts : statut[a] = 1


(***************************************************************************)
(* The feed: GET /posts over a store of four posts, requested with query   *)
(* parameters by a logged-in browser (k1, account 1) and by one without    *)
(* session (k2), the database connected.  No handler of this               *)
(* specification writes a post.                                            *)
(***************************************************************************)
TaggedPost ==
  [body |-> "rentrée", createdBy |-> 1, date |-> "2025-03-10",
   hour |-> "08:00:00", likes |-> 2, likedBy |-> <<1, 2>>,
   comments |-> <<>>, hashtags |-> Some(<<"#avignon", "#ceri">>),
   images |-> None, isShared |-> None, originalPost |-> None,
   sharedFrom |-> None]

LatePost ==
  [body |-> "soir", createdBy |-> 2, date |-> "2025-03-12",
   hour |-> "14:30:00", likes |-> 0, likedBy |-> <<>>,
   comments |-> <<>>, hashtags |-> Some(<<"#cerise">>),
   images |-> None, isShared |-> None, originalPost |-> None,
   sharedFrom |-> None]

FeedStore == (1 :> PlainPost) @@ (2 :> LikedPost) @@ (3 :> TaggedPost)
               @@ (4 :> LatePost)

\* page and pageSize over the whole feed
PagingQueries ==
  {Query(p, s, "", "", "", "", "") : p \in {"", "2", "3"}, s \in {"", "1", "3"}}
    \cup {Query("0", "", "", "", "", "", ""), Query("abc", "2", "", "", "", "", ""),
          Query("1", "0", "", "", "", "", ""), Query("2.7", "2", "", "", "", "", "")}

\* the hashtag and owner filters, on the default page and on a second page
FilterQueries ==
  {Query("", "", h, o[1], o[2], "", "") :
     h \in {"", "#ceri"},
     o \in {<<"me", "1">>, <<"others", "1">>, <<"all", "1">>, <<"mine", "1">>,
            <<"me", "">>}}
    \cup {Query("", "", "#cer", "", "", "", ""),
          Query("", "", "", "others", "abc", "", ""),
          Query("2", "1", "#ceri", "me", "1", "", ""),
          Query("2", "1", "", "others", "1", "", "")}

\* the sort options, two posts a page
SortQueries ==
  {Query("1", "2", "", "", "", by, dir) :
     by \in {"date", "owner", "popularity"}, dir \in {"asc", "desc"}}
    \cup {Query("2", "2", "", "", "", "hour", "asc")}

FeedQueries == PagingQueries \cup FilterQueries \cup SortQueries

NextFeed ==
  \/ \E c \in Cookies, q \in FeedQueries :
       Len(reqs) < MaxFeedReqs /\ PostsStart(c, q)
  \/ \E i \in 1..Len(reqs) : PostsColl(i)
  \/ \E i \in 1..Len(reqs) : PostsCount(i)
  \/ \E i \in 1..Len(reqs) : PostsFind(i)
  \/ \E i \in 1..Len(reqs) : PostsUsers(i)

InitFeed ==
  /\ posts = FeedStore
  /\ dbConnected = TRUE
  /\ events = <<>>
  /\ statut = [a \in Accounts |-> IF a = 1 THEN 1 ELSE 0]
  /\ session = [c \in Cookies |-> IF c = "k1" THEN Some(Summary(Compte[1])) ELSE None]
  /\ reqs = <<>>
  /\ connectedUsers = <<>>

SpecFeed == InitFeed /\ [][NextFeed]_vars

(***************************************************************************)
(* Properties of the feed                                                  *)
(***************************************************************************)
\* the answered listings
Listings == {k \in 1..Len(reqs) : reqs[k].kind = "posts" /\ reqs[k].status = 200}

PageOf(r) == OrDefault(ParseInt(r.query.page), DefaultPage)
PageSizeOf(r) == OrDefault(ParseInt(r.query.pageSize), DefaultPageSize)
Min(a, b) == IF a < b THEN a ELSE b
Max(a, b) == IF a > b THEN a ELSE b

\* the ids of the posts matching the request's filter
Matching(r) == {oid \in DOMAIN posts : Matches(posts[oid], FilterOf(r.query))}

\* the filtered, sorted sequences the listing can be a page of
Pages(r) ==
  {SkipLimit(seq, (PageOf(r) - 1) * PageSizeOf(r), PageSizeOf(r)) :
     seq \in Sorted(posts, FilterOf(r.query), SortOptions(r.query))}

\* the page number and page size a request asks for, 1 and 10 when absent
AskedPage(r) == IF r.query.page = "" THEN Some(1) ELSE ParseInt(r.query.page)
AskedPageSize(r) ==
  IF r.query.pageSize = "" THEN Some(10) ELSE ParseInt(r.query.pageSize)

\* the least n with n * s >= t
Ceil(t, s) == CHOOSE n \in 0..t : n * s >= t /\ (n = 0 \/ (n - 1) * s < t)

\* positions 1..25
TwentyFive == [n \in 1..25 |-> n]

\* C19: a listing asked with page p >= 1 and pageSize s >= 1 (1 and 10 when
\* absent), T posts matching its filter, reports page p, pageSize s,
\* total = T and totalPages = ceil(T/s), and returns
\* max(0, min(s, T - (p-1)*s)) posts, those at positions (p-1)*s + 1 onward
\* of a filtered, sorted sequence; 25 posts by 10 make 3 pages, the third of
\* 5 posts
C19_Pagination ==
  /\ TotalPages(25, 10) = 3
  /\ Len(SkipLimit(TwentyFive, (3 - 1) * 10, 10)) = 5
  /\ \A k \in Listings :
       LET r == reqs[k]
           b == Val(reqs[k].body) IN
       (/\ IsSome(AskedPage(r)) /\ Val(AskedPage(r)) >= 1
        /\ IsSome(AskedPageSize(r)) /\ Val(AskedPageSize(r)) >= 1) =>
         LET pg == Val(AskedPage(r))
             sz == Val(AskedPageSize(r))
             T == Cardinality(Matching(r)) IN
         /\ b.page = pg /\ b.pageSize = sz
         /\ b.total = T
         /\ b.totalPages = Ceil(T, sz)
         /\ Len(b.posts) = Max(0, Min(sz, T - (pg - 1) * sz))
         /\ \E seq \in Sorted(posts, FilterOf(r.query), SortOptions(r.query)) :
              \A j \in 1..Len(b.posts) :
                b.posts[j] = seq[(pg - 1) * sz + j]

\* C19 witness: the second page by three of the four posts holds one post
C19_Witness ==
  \E k \in Listings :
    /\ reqs[k].query.page = "2" /\ reqs[k].query.pageSize = "3"
    /\ Val(reqs[k].body).total = 4 /\ Val(reqs[k].body).totalPages = 2
    /\ Len(Val(reqs[k].body).posts) = 1

\* a listing without page and pageSize answers page 1 by 10 with every post
C19_WitnessDefaults ==
  \E k \in Listings :
    /\ reqs[k].query = NoQuery
    /\ Val(reqs[k].body).page = 1 /\ Val(reqs[k].body).pageSize = 10
    /\ Len(Val(reqs[k].body).posts) = 4

\* the posts carrying the request's hashtag, every post when it has none
Tagged(r) ==
  {oid \in DOMAIN posts :
     r.query.hashtag = "" \/
       (IsSome(posts[oid].hashtags) /\
        \E n \in 1..Len(Val(posts[oid].hashtags)) :
          Val(posts[oid].hashtags)[n] = r.query.hashtag)}

\* the listing returns posts of the set only, all of them when they fit the
\* page, and reports the size of the set as total
Lists(r, set) ==
  LET b == Val(r.body) IN
  /\ Range(b.posts) \subseteq set
  /\ b.total = Cardinality(set)
  /\ (b.page = 1 /\ Cardinality(set) <= b.pageSize) => Range(b.posts) = set

\* the listings asked with that ownership filter and an account id
OwnerListings(value) ==
  {k \in Listings : reqs[k].query.filterByOwner = value
                    /\ IsSome(ParseInt(reqs[k].query.userId))}

\* C20 as stated: with an account id R supplied, the filter value 'mine'
\* returns only posts whose author is R
C20_MineFilters ==
  \A k \in OwnerListings("mine") :
    \A n \in 1..Len(Val(reqs[k].body).posts) :
      posts[Val(reqs[k].body).posts[n]].createdBy
        = Val(ParseInt(reqs[k].query.userId))

\* C20: with an account id R supplied in userId, the filter value 'me' lists
\* the posts of author R carrying the hashtag asked (if any), 'others' those
\* of the other authors, 'all' (as any other value, 'mine' included) those
\* of every author; total counts exactly the posts of that set
C20_OwnerFilter ==
  /\ \A k \in OwnerListings("me") :
       Lists(reqs[k], {oid \in Tagged(reqs[k]) :
         posts[oid].createdBy = Val(ParseInt(reqs[k].query.userId))})
  /\ \A k \in OwnerListings("others") :
       Lists(reqs[k], {oid \in Tagged(reqs[k]) :
         posts[oid].createdBy /= Val(ParseInt(reqs[k].query.userId))})
  /\ \A k \in OwnerListings("all") \cup OwnerListings("mine") :
       Lists(reqs[k], Tagged(reqs[k]))

\* C20 witness: 'others' of account 1 with hashtag #ceri lists post 1 alone,
\* though post 3 carries the hashtag and post 4 is by another author
C20_Witness ==
  \E k \in OwnerListings("others") :
    /\ reqs[k].query.userId = "1" /\ reqs[k].query.hashtag = "#ceri"
    /\ Val(reqs[k].body).posts = <<1>> /\ Val(reqs[k].body).total = 1

\* 'me' of account 1 without hashtag lists posts 2 and 3
C20_WitnessMe ==
  \E k \in OwnerListings("me") :
    /\ reqs[k].query.userId = "1" /\ reqs[k].query.hashtag = ""
    /\ Range(Val(reqs[k].body).posts) = {2, 3} /\ Val(reqs[k].body).total = 2


(***************************************************************************)
(* The three post handlers together: like-post, add-comment                *)
(* (sockets/handlers/comment.js) and share-post events of two connections, *)
(* interleaved at their storage calls.                                     *)
(***************************************************************************)
\* the events the three handlers receive together: likes and shares of the
\* first post and of the first shared post (unknown until it is created), a
\* comment with and one without content, and events without payload,
\* without post id and without user id
HandlerLikeInputs ==
  {<<"s1", Payload(IdP1, 1)>>, <<"s2", Payload(IdP1, 2)>>,
   <<"s2", Payload(IdP2, 1)>>, <<"s1", NoPayload>>,
   <<"s1", Payload(IdAbsent, 1)>>, <<"s2", Payload(IdP1, 0)>>}
HandlerCommentInputs ==
  {<<"s1", CommentPayload(IdP1, 1, Some("salut"))>>,
   <<"s2", CommentPayload(IdP1, 2, None)>>}
HandlerShareInputs ==
  {<<"s1", Payload(IdP1, 1)>>, <<"s2", Payload(IdP2, 1)>>, <<"s2", NoPayload>>,
   <<"s1", Payload(IdAbsent, 1)>>, <<"s2", Payload(IdP1, 0)>>}

NextHandlers ==
  \/ \E in \in HandlerLikeInputs : LikeStart(in[1], in[2])
  \/ \E i \in 1..Len(events) : LikeGetColl(i)
  \/ \E i \in 1..Len(events) : LikeFindLiked(i)
  \/ \E i \in 1..Len(events) : LikeUpdate(i)
  \/ \E i \in 1..Len(events) : LikeReread(i)
  \/ \E in \in HandlerCommentInputs : CommentStart(in[1], in[2])
  \/ \E i \in 1..Len(events) : CommentGetColl(i)
  \/ \E i \in 1..Len(events) : CommentUpdate(i)
  \/ \E in \in HandlerShareInputs : ShareStart(in[1], in[2])
  \/ \E i \in 1..Len(events) : ShareGetColl(i)
  \/ \E i \in 1..Len(events) : ShareFind(i)
  \/ \E i \in 1..Len(events) : ShareInsertReturns(i)

SpecHandlers == Init /\ [][NextHandlers]_vars

(***************************************************************************)
(* Properties of the three handlers                                        *)
(***************************************************************************)
\* the payload is absent or lacks a field its handler needs
Malformed(e) ==
  \/ ~e.hasData
  \/ e.postId = IdAbsent
  \/ e.userId = 0
  \/ e.kind = "comment" /\ ~IsSome(e.content)

\* the event emitted one error to its connection and nothing else
OneErrorOnly(e) ==
  /\ Len(e.out) = 1
  /\ e.out[1].name = "error" /\ e.out[1].to = "socket"
  /\ e.out[1].sock = e.socket

\* C21: an event of the three handlers whose payload is absent or malformed,
\* or one of whose storage calls threw, ends with one error event to the
\* initiating connection and no broadcast
C21_FailureBoundary ==
  \A k \in DoneEvents :
    (events[k].threw \/ Malformed(events[k])) => OneErrorOnly(events[k])

\* the catch of a handler: the event ends with one error to its connection,
\* and the step in which it ran changed no document and no other event
CaughtIsContained ==
  /\ [](\A k \in DoneEvents : events[k].threw => OneErrorOnly(events[k]))
  /\ [][\A k \in 1..Len(events') :
          (events'[k].threw /\ (k > Len(events) \/ ~events[k].threw))
          => /\ posts' = posts
             /\ \A j \in 1..Len(events) :
                  j /= k => events'[j] = [events[j] EXCEPT !.alone = events'[j].alone]]_vars

\* a like or share event with a malformed payload ends with one error only
LikeShareMalformed ==
  \A k \in DoneEvents :
    (events[k].kind \in {"like", "share"} /\ Malformed(events[k]))
    => OneErrorOnly(events[k])

\* an add-comment without content was broadcast, a later like-post of the
\* same connection failed in its catch
C21_Reached ==
  \E k, j \in DoneEvents :
    /\ k < j /\ events[k].kind = "comment" /\ ~IsSome(events[k].content)
    /\ \E m \in Range(events[k].out) : m.name = "new-comment"
    /\ events[j].kind = "like" /\ events[j].threw


(***************************************************************************)
(* Properties of the status write of login and logout                      *)
(***************************************************************************)
\* the request's connection-status write failed
StatusWriteFailed(r) ==
  \E n \in 1..Len(r.calls) : r.calls[n].op = "update" /\ ~r.calls[n].ok

\* C22: a POST /login or POST /logout whose connection-status write failed
\* answers 500 and reports no success
C22_WritesFailLoudly ==
  \A k \in 1..Len(reqs) :
    (reqs[k].kind \in {"login", "logout"} /\ reqs[k].pc = "done"
       /\ StatusWriteFailed(reqs[k]))
    => /\ reqs[k].status = 500
       /\ ~Val(reqs[k].body).success

\* a login whose status write failed answered 200 and left a session
C22_Reached ==
  \E k \in 1..Len(reqs) :
    /\ reqs[k].kind = "login" /\ reqs[k].pc = "done"
    /\ StatusWriteFailed(reqs[k]) /\ reqs[k].status = 200
    /\ IsSome(session[reqs[k].cookie])

(***************************************************************************)
(* Properties of like-post and share-post on bad input                     *)
(***************************************************************************)
LikeOrShare(e) == e.kind \in {"like", "share"}

\* the payload is present and lacks postId or userId
Incomplete(e) == e.hasData /\ (e.postId = IdAbsent \/ e.userId = 0)

IncompleteError(e) ==
  SocketEmit(e.socket, "error",
             ErrorMsg(IF e.kind = "like" THEN "Données de like incomplètes"
                      ELSE "Les données de partage sont incomplètes"))

\* the step is one of the handler of event k (its arrival included)
HandlerStepOf(k) ==
  k <= Len(events') /\ (k > Len(events) \/ events'[k].pc /= events[k].pc)

\* C23: a like-post or share-post event whose payload lacks postId or userId
\* is answered in the step of its arrival, before any storage call, with the
\* incomplete-data error to the initiating connection and nothing else, and
\* changes no document
C23_IncompleteRejected ==
  /\ [](\A k \in 1..Len(events) :
          (LikeOrShare(events[k]) /\ Incomplete(events[k]))
          => /\ events[k].pc = "done"
             /\ events[k].out = <<IncompleteError(events[k])>>
             /\ events[k].oid = 0 /\ events[k].read = None
             /\ events[k].inc = 0 /\ events[k].newId = None)
  /\ [][\A k \in 1..Len(events') :
          (HandlerStepOf(k) /\ LikeOrShare(events'[k]) /\ Incomplete(events'[k]))
          => /\ k > Len(events)
             /\ posts' = posts /\ dbConnected' = dbConnected]_vars

\* C23 witness: a like without post id and a share without user id, answered
C23_Witness ==
  \E j, k \in DoneEvents :
    /\ events[j].kind = "like" /\ events[j].hasData
    /\ events[j].postId = IdAbsent
    /\ events[k].kind = "share" /\ events[k].hasData /\ events[k].userId = 0
    /\ events[j].out = <<IncompleteError(events[j])>>
    /\ events[k].out = <<IncompleteError(events[k])>>

\* the event's storage calls all returned
StorageReturned(e) ==
  /\ ~e.threw
  /\ \A m \in Range(e.out) :
       m.name = "error" =>
         m.payload.message /= "Erreur de connexion à la base de données MongoDB"

\* the event names, with a well-formed id, a post that does not exist when
\* the handler ends (nor before: no handler deletes a document)
UnknownPost(e) ==
  /\ e.hasData /\ e.userId /= 0
  /\ IsSome(ObjectIdOf(e.postId))
  /\ ~IsSome(e.post)

NotFoundError(e) == SocketEmit(e.socket, "error", ErrorMsg("Post non trouvé"))

\* C24: a like-post or share-post event whose post id matches no document,
\* its storage calls having returned, ends with 'Post non trouvé' to the
\* initiating connection and nothing else (no post-liked, no post-shared);
\* no step of a handler whose target does not exist changes the collection
C24_UnknownPostRejected ==
  /\ [](\A k \in DoneEvents :
          (LikeOrShare(events[k]) /\ UnknownPost(events[k])
             /\ StorageReturned(events[k]))
          => /\ events[k].out = <<NotFoundError(events[k])>>
             /\ events[k].inc = 0 /\ events[k].newId = None)
  /\ [][\A k \in 1..Len(events') :
          (HandlerStepOf(k) /\ LikeOrShare(events'[k])
             /\ ~IsSome(Target(events'[k].postId)))
          => posts' = posts]_vars

\* C24 witness: a like and a share of a post that does not exist, both
\* through their storage calls
C24_Witness ==
  \E j, k \in DoneEvents :
    /\ events[j].kind = "like" /\ events[k].kind = "share"
    /\ UnknownPost(events[j]) /\ UnknownPost(events[k])
    /\ StorageReturned(events[j]) /\ StorageReturned(events[k])
    /\ events[j].out = <<NotFoundError(events[j])>>
    /\ events[k].out = <<NotFoundError(events[k])>>


(***************************************************************************)
(* Further properties of the presence handlers                             *)
(***************************************************************************)
\* C25: an authenticate event whose payload is absent or lacks an account id
\* returns in the step of its arrival: that step leaves the presence map and
\* every connection-status flag as they were, and the event never makes a
\* storage call nor emits anything
C25_AuthenticateWithoutId ==
  /\ [](\A k \in PresenceEvents("authenticate") :
          (~events[k].hasData \/ events[k].userId = 0)
          => /\ events[k].pc = "done"
             /\ events[k].calls = <<>> /\ events[k].out = <<>>)
  /\ [][\A k \in 1..Len(events') :
          (Arrival(k, "authenticate")
             /\ (~events'[k].hasData \/ events'[k].userId = 0))
          => /\ connectedUsers' = connectedUsers
             /\ statut' = statut]_vars

\* C25 witness: a socket sent authenticate without payload and another one
\* with a payload lacking the id; neither has an entry
C25_Witness ==
  \E j, k \in PresenceEvents("authenticate") :
    /\ ~events[j].hasData
    /\ events[k].hasData /\ events[k].userId = 0
    /\ ~HasEntry(events[j].socket) /\ ~HasEntry(events[k].socket)
    /\ events[j].out = <<>> /\ events[k].out = <<>>


(***************************************************************************)
(* The like counter under the three handlers                               *)
(***************************************************************************)
\* C26: under every interleaving of like-post, add-comment and share-post
\* events, every post (a shared post included) keeps likes = Len(likedBy),
\* and no step removes a post or lowers its like counter
C26_LikesMatchLikers ==
  /\ [](\A d \in DOMAIN posts : posts[d].likes = Len(posts[d].likedBy))
  /\ [][\A d \in DOMAIN posts :
          d \in DOMAIN posts' /\ posts'[d].likes >= posts[d].likes]_vars

\* C26 witness: a like and a share of the same post, interleaved, both
\* succeeded: the post has one like more than before, the share none
C26_Witness ==
  \E j, k \in DoneEvents :
    /\ events[j].kind = "like" /\ events[j].inc = 1 /\ ~events[j].alone
    /\ events[k].kind = "share" /\ IsSome(events[k].newId)
    /\ events[j].oid = events[k].oid
    /\ posts[events[j].oid].likes >= 1
    /\ posts[Val(events[k].newId)].likes = 0

\* a comment was handled between the steps of a like that succeeded
C26_WitnessComment ==
  \E j, k \in DoneEvents :
    /\ events[j].kind = "like" /\ events[j].inc = 1 /\ ~events[j].alone
    /\ events[k].kind = "comment" /\ ~events[k].threw
    /\ Len(events[k].out) = 1 /\ events[k].out[1].name = "new-comment"

\* every handler started for the socket has returned
Quiet(sock) ==
  \A k \in 1..Len(events) : events[k].socket = sock => events[k].pc = "done"

\* C27: once a socket has disconnected and its handlers have returned, no
\* entry of the presence map refers to it
C27_NoEntryAfterDisconnect ==
  \A sock \in Sockets : (Closed(sock) /\ Quiet(sock)) => ~HasEntry(sock)

\* the disconnect found no entry while the socket's authenticate was waiting
\* for its status write; the authenticate then stored the entry
C27_Reached ==
  \E a \in PresenceEvents("authenticate"), d \in PresenceEvents("disconnect") :
    /\ a < d /\ events[a].socket = events[d].socket
    /\ Quiet(events[a].socket)
    /\ ~IsSome(events[d].found)
    /\ HasEntry(events[a].socket) /\ statut[events[a].userId] = 1

(***************************************************************************)
(* Reconnection: account 1 has authenticated on socket s1 (its entry is in *)
(* the map, its flag is 1), then the presence events arrive.               *)
(***************************************************************************)
InitReconnect ==
  /\ posts = (1 :> PlainPost)
  /\ dbConnected = TRUE
  /\ events = <<>>
  /\ statut = [a \in Accounts |-> IF a = 1 THEN 1 ELSE 0]
  /\ session = [c \in {"k1", "k2"} |-> None]
  /\ reqs = <<>>
  /\ connectedUsers = MapSet(<<>>, 1, "s1", "Ana")

SpecReconnect == InitReconnect /\ [][NextPresence]_vars

\* the state reconnection starts from, reached by the presence handlers
ReconnectStart ==
  /\ connectedUsers = MapSet(<<>>, 1, "s1", "Ana")
  /\ statut = [a \in Accounts |-> IF a = 1 THEN 1 ELSE 0]
  /\ \A k \in 1..Len(events) : events[k].pc = "done"

\* the authenticate events of the account on the socket
AuthenticatesOn(sock, id) ==
  {k \in PresenceEvents("authenticate") :
     events[k].socket = sock /\ events[k].hasData /\ events[k].userId = id}

OneEntryPerAccount ==
  \A a \in Accounts : Cardinality(EntriesOf(connectedUsers, a)) <= 1

Stored(k) == events[k].pc \in {"query", "done"}

MaxSessionReqs == 1

NextSession ==
  \/ NextPresence
  \/ Len(reqs) < MaxSessionReqs /\ LoginStart("k2", "ana@ceri.fr", "pw-ana")
  \/ \E i \in 1..Len(reqs) : LoginQuery(i)
  \/ \E i \in 1..Len(reqs) : LoginUpdate(i)
  \/ Len(reqs) < MaxSessionReqs /\ LogoutStart("k1")
  \/ \E i \in 1..Len(reqs) : LogoutUpdate(i)
  \/ \E i \in 1..Len(reqs) : LogoutDestroy(i)

InitSession ==
  /\ posts = (1 :> PlainPost)
  /\ dbConnected = TRUE
  /\ events = <<>>
  /\ statut = [a \in Accounts |-> IF a = 1 THEN 1 ELSE 0]
  /\ session = [c \in Cookies |->
                  IF c = "k1" THEN Some(Summary(Compte[1])) ELSE None]
  /\ reqs = <<>>
  /\ connectedUsers = MapSet(<<>>, 1, "s1", "Ana")

SpecSession == InitSession /\ [][NextSession]_vars

\* no call to the credential store has failed
StoreAlwaysReachable ==
  /\ \A k \in 1..Len(events) : StoreReachable(events[k])
  /\ \A k \in 1..Len(reqs) : \A c \in Range(reqs[k].calls) : c.ok

\* the open sockets' completed authenticates
OpenAuthenticated ==
  {k \in PresenceEvents("authenticate") :
     /\ events[k].pc = "done" /\ events[k].hasData /\ events[k].userId /= 0
     /\ ~Closed(events[k].socket)}

\* C28: with the credential store always reachable, an account that
\* completed authenticate on a socket still open has its flag at 1 and a
\* presence entry
C28_OpenSocketKeepsPresence ==
  StoreAlwaysReachable =>
    \A k \in OpenAuthenticated :
      /\ statut[events[k].userId] = 1
      /\ EntriesOf(connectedUsers, events[k].userId) /= {}

\* a logout over HTTP cleared the flag of an account whose socket is open
C28_ReachedByLogout ==
  /\ StoreAlwaysReachable
  /\ \E k \in OpenAuthenticated, r \in 1..Len(reqs) :
       /\ reqs[r].kind = "logout" /\ reqs[r].status = 200
       /\ events[k].userId = 1 /\ statut[1] = 0
       /\ EntriesOf(connectedUsers, 1) /= {}

\* the disconnect of the account's previous socket cleared the flag after
\* the authenticate on the new socket had set it
C28_ReachedByDisconnect ==
  /\ StoreAlwaysReachable /\ reqs = <<>>
  /\ \E k \in OpenAuthenticated, d \in PresenceEvents("disconnect") :
       /\ events[d].pc = "done" /\ IsSome(events[d].found)
       /\ Val(events[d].found).id = events[k].userId
       /\ events[d].socket /= events[k].socket
       /\ statut[events[k].userId] = 0
       /\ EntriesOf(connectedUsers, events[k].userId) /= {}


(***************************************************************************)
(* like-post with every storage call eventually returning or throwing      *)
(***************************************************************************)
\* a storage call awaited by a like-post handler returns or throws
LikeResumes ==
  \/ \E i \in 1..Len(events) : LikeGetColl(i)
  \/ \E i \in 1..Len(events) : LikeFindLiked(i)
  \/ \E i \in 1..Len(events) : LikeUpdate(i)
  \/ \E i \in 1..Len(events) : LikeReread(i)

\* the like-post events received: of an existing post, of an unknown one,
\* with a malformed id, without user id, without payload
FairLikeInputs ==
  {<<"s1", Payload(IdP1, 1)>>, <<"s2", Payload(IdGone, 1)>>,
   <<"s2", Payload(IdBad, 1)>>, <<"s2", Payload(IdP1, 0)>>,
   <<"s1", NoPayload>>}

NextLikeFair ==
  \/ \E in \in FairLikeInputs : LikeStart(in[1], in[2])
  \/ LikeResumes

SpecLikeFair == Init /\ [][NextLikeFair]_vars /\ WF_vars(LikeResumes)

ErrorsOf(e) == {n \in 1..Len(e.out) : e.out[n].name = "error"}
PostLikedOf(e) == {n \in 1..Len(e.out) : e.out[n].name = "post-liked"}

\* the handler ended with one error to its connection and no broadcast, or
\* with one post-liked broadcast and no error
OneOutcome(e) ==
  /\ Len(e.out) = 1
  /\ \/ /\ ErrorsOf(e) = {1} /\ PostLikedOf(e) = {}
        /\ e.out[1].to = "socket" /\ e.out[1].sock = e.socket
     \/ /\ PostLikedOf(e) = {1} /\ ErrorsOf(e) = {}
        /\ e.out[1].to = "all"

\* C30: every like-post event received is eventually handled to its end,
\* nothing is emitted before the end, and at the end exactly one of the two
\* outcomes has happened
C30_LikeTerminatesOnce ==
  /\ [](\A k \in LikeEvents :
          IF events[k].pc = "done" THEN OneOutcome(events[k])
          ELSE events[k].out = <<>>)
  /\ \A k \in 1..MaxLikeEvents :
       (Len(events) >= k) ~> (Len(events) >= k /\ events[k].pc = "done")

\* C30 witness: one like ended with the broadcast, another with an error
C30_Witness ==
  \E j, k \in LikeEvents :
    /\ events[j].pc = "done" /\ events[k].pc = "done"
    /\ PostLikedOf(events[j]) = {1} /\ ErrorsOf(events[k]) = {1}
    /\ events[k].threw

====
